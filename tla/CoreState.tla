----------------------------- MODULE CoreState ------------------------------
(* The number scanner of CoreMark (software/coremark/core_state.c): a block of *)
(* text, scanned token by token.  Characters are their codes; the block is a   *)
(* function from offsets to bytes.                                             *)
EXTENDS CoreUtil, Sequences

Comma == 44
Dot == 46
Signs == {43, 45}                  \* + -
Exps == {69, 101}                  \* E e
Digits == 48 .. 57                 \* ee_isdigit

(* The codes of enum CORE_STATE, which also index the two tables of counts.   *)
START == 0
INVALID == 1
S1 == 2
S2 == 3
INT == 4
FLOAT == 5
EXPONENT == 6
SCIENTIFIC == 7
States == START .. SCIENTIFIC

(* The texts "5012" ... "34.0e-T^" of the four classes, by class and variant. *)
Patterns == [int |-> << <<53, 48, 49, 50>>, <<49, 50, 51, 52>>,
                        <<45, 56, 55, 52>>, <<43, 49, 50, 50>> >>,
             float |-> << <<51, 53, 46, 53, 52, 52, 48, 48>>, <<46, 49, 50, 51, 52, 53, 48, 48>>,
                          <<45, 49, 49, 48, 46, 55, 48, 48>>, <<43, 48, 46, 54, 52, 52, 48, 48>> >>,
             sci |-> << <<53, 46, 53, 48, 48, 101, 43, 51>>, <<45, 46, 49, 50, 51, 101, 45, 50>>,
                        <<45, 56, 55, 101, 43, 56, 51, 50>>, <<43, 48, 46, 54, 101, 45, 49, 50>> >>,
             err |-> << <<84, 48, 46, 51, 101, 45, 49, 70>>, <<45, 84, 46, 84, 43, 43, 84, 113>>,
                        <<49, 84, 51, 46, 52, 101, 52, 122>>, <<51, 52, 46, 48, 101, 45, 84, 94>> >>]

(* The text written for a value of the seed, which grows by one per token.    *)
Pattern(seed) ==
    LET kind == seed % 8
        class == IF kind <= 2 THEN "int" ELSE IF kind <= 4 THEN "float"
                 ELSE IF kind <= 6 THEN "sci" ELSE "err"
    IN  Patterns[class][((seed \div 8) % 4) + 1]

(* core_init_state: tokens and commas while the next one fits, then zeros.    *)
RECURSIVE Tokens(_, _, _)
Tokens(size, seed, text) ==
    LET token == Append(Pattern(seed), Comma)
    IN  IF Len(text) + Len(token) < size - 1 THEN Tokens(size, seed + 1, text \o token) ELSE text

core_init_state(size, seed) ==
    LET text == Tokens(size, seed + 1, <<>>)
    IN  [a \in 0 .. size - 1 |-> IF a < Len(text) THEN text[a + 1] ELSE 0]

(* The state after character c, by the switch of core_state_transition.       *)
After(s, c) ==
    CASE s = START /\ c \in Digits        -> INT
      [] s = START /\ c \in Signs         -> S1
      [] s = START /\ c = Dot             -> FLOAT
      [] s = S1 /\ c \in Digits           -> INT
      [] s = S1 /\ c = Dot                -> FLOAT
      [] s = INT /\ c \in Digits          -> INT
      [] s = INT /\ c = Dot               -> FLOAT
      [] s = FLOAT /\ c \in Digits        -> FLOAT
      [] s = FLOAT /\ c \in Exps          -> S2
      [] s = S2 /\ c \in Signs            -> EXPONENT
      [] s = EXPONENT /\ c \in Digits     -> SCIENTIFIC
      [] s = SCIENTIFIC /\ c \in Digits   -> SCIENTIFIC
      [] OTHER                            -> INVALID

(* A definition whose name ends in Mut is a faulty variant of the next one; no *)
(* specification uses it.                                                      *)
CountedMut(s, t) ==              \* START counted, but not the error it ends in
    CASE s = START            -> {START}
      [] s \in {INT, FLOAT}   -> IF t = s THEN {} ELSE {s}
      [] s = SCIENTIFIC       -> {t} \cap {INVALID}
      [] OTHER                -> {s}

(* The transition counters one character bumps.                               *)
Counted(s, t) ==
    CASE s = START            -> {START} \cup ({t} \cap {INVALID})
      [] s \in {INT, FLOAT}   -> IF t = s THEN {} ELSE {s}
      [] s = SCIENTIFIC       -> {t} \cap {INVALID}
      [] OTHER                -> {s}

NoCounts == [s \in States |-> 0]

(* core_state_transition from offset p: where it stops, in which state, and   *)
(* the counters.  It stops at a zero, behind a comma and behind an error.     *)
RECURSIVE core_state_transition(_, _, _, _)
core_state_transition(block, p, s, track) ==
    IF block[p] = 0 \/ s = INVALID THEN [p |-> p, state |-> s, track |-> track]
    ELSE IF block[p] = Comma THEN [p |-> p + 1, state |-> s, track |-> track]
    ELSE LET t == After(s, block[p])
         IN  core_state_transition(block, p + 1, t,
                                   [i \in States |-> track[i] + IF i \in Counted(s, t) THEN 1 ELSE 0])

(* Every step-th byte that is not a comma is exclusive-ored with the seed.    *)
Corrupt(block, seed, step) ==
    [a \in DOMAIN block |->
       IF a % step = 0 /\ block[a] # Comma THEN block[a] ^^ (seed % 256) ELSE block[a]]

(* The checksum of the counts, final and transition count by turns.           *)
CrcCounts(final, track, crc) ==
    LET c[i \in 0 .. 8] ==
          IF i = 0 THEN crc ELSE crcu32(track[i - 1], crcu32(final[i - 1], c[i - 1]))
    IN  c[8]
=============================================================================
