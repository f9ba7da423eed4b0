---------------------------- MODULE VideoOutput ----------------------------
(***************************************************************************)
(* arch/terminal.cpp, class VideoOutput: one window of the terminal, which   *)
(* only ever gets characters one after the other.  What is drawn is the      *)
(* buffer, copied whole to the window after every print.                     *)
(***************************************************************************)
EXTENDS Integers, SequencesExt

CONSTANTS nrows, ncols,   \* size of the window inside its border
          BRANCO          \* the character ' '

LF == "lf"
CR == "cr"

ASSUME VideoAssumption == nrows \in Nat \ {0} /\ ncols \in Nat \ {0} /\ BRANCO \notin {LF, CR}

Linhas  == 0 .. nrows - 1
Colunas == 0 .. ncols - 1

LinhaVazia == [col \in Colunas |-> BRANCO]

Tela(b, x, y) == [buffer |-> b, x |-> x, y |-> y]

TelaNova == Tela([lin \in Linhas |-> LinhaVazia], 0, 0)

roll(b) == [lin \in Linhas |-> IF lin = nrows - 1 THEN LinhaVazia ELSE b[lin + 1]]

\* Fault: the screen rolls and the cursor stays below it.
ProximaLinha_sem_voltar(b, y) == IF y + 1 < nrows THEN Tela(b, 0, y + 1) ELSE Tela(roll(b), 0, y + 1)

\* The row after y, which comes up from below when there is none.
ProximaLinha(b, y) == IF y + 1 < nrows THEN Tela(b, 0, y + 1) ELSE Tela(roll(b), 0, y)

\* Row y made blank from column x on.
LimpaLinha(b, x, y) ==
    [b EXCEPT ![y] = [col \in Colunas |-> IF col < x THEN b[y][col] ELSE BRANCO]]

\* A full row is left only when one more character comes.
ComLugar(tela) == IF tela.x >= ncols THEN ProximaLinha(tela.buffer, tela.y) ELSE tela

\* Fault: a carriage return leaves the row as it is.
Caractere_sem_limpar(tela, c) ==
    LET t == ComLugar(tela)
    IN  CASE c = LF -> ProximaLinha(LimpaLinha(t.buffer, t.x, t.y), t.y)
          [] c = CR -> Tela(t.buffer, 0, t.y)
          [] OTHER  -> Tela([t.buffer EXCEPT ![t.y][t.x] = c], t.x + 1, t.y)

\* What print does with one character.
Caractere(tela, c) ==
    LET t == ComLugar(tela)
    IN  CASE c = LF -> ProximaLinha(LimpaLinha(t.buffer, t.x, t.y), t.y)
          [] c = CR -> Tela(LimpaLinha(t.buffer, 0, t.y), 0, t.y)
          [] OTHER  -> Tela([t.buffer EXCEPT ![t.y][t.x] = c], t.x + 1, t.y)

\* The screens that text goes through, one for each character printed.
Telas(tela, texto) ==
    LET depois[i \in 0 .. Len(texto)] ==
            IF i = 0 THEN tela ELSE Caractere(depois[i - 1], texto[i])
    IN  depois

print(tela, texto) == Telas(tela, texto)[Len(texto)]

-----------------------------------------------------------------------------
(* What is seen *)

\* The characters drawn before the cursor, row after row.
AntesDoCursor(tela) ==
    [i \in 1 .. tela.y * ncols + tela.x |-> tela.buffer[(i - 1) \div ncols][(i - 1) % ncols]]

CursorDentro(tela) == tela.y \in Linhas /\ tela.x \in 0 .. ncols

\* Nothing is drawn at the cursor or after it.
LimpaDepois(tela) ==
    \A lin \in Linhas, col \in Colunas :
        lin > tela.y \/ (lin = tela.y /\ col >= tela.x) => tela.buffer[lin][col] = BRANCO
=============================================================================
