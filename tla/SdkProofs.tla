------------------------------ MODULE SdkProofs ------------------------------
(***************************************************************************)
(* Proofs about two programs of the E203's kit.                            *)
(*                                                                         *)
(* Dhrystone ends with the values main prints as "should be" after any     *)
(* number of runs: what a run leaves behind is enough for the next one.    *)
(*                                                                         *)
(* The GPIO demo, for all buttons and any number of them in service: no    *)
(* write to GPIO_OUTPUT_VAL undoes another's, and no claim comes back      *)
(* without a source the demo has a handler for.                            *)
(***************************************************************************)
EXTENDS Dhrystone, GpioDemo, TLAPS

-----------------------------------------------------------------------------
\* Dhrystone.

\* dhry_stubs.c has 160000, far from where Arr_2_Glob would overflow an int.
SomeRuns == Number_Of_Runs \in Nat \ {0}

Cell == [Ptr_Comp : {"Ptr_Glob", "Next_Ptr_Glob", "nothing"}, Discr : Int, Enum_Comp : Int, Int_Comp : Int,
         Str_Comp : {Some, "nothing"}]
Recs == [Ptr_Glob : Cell, Next_Ptr_Glob : Cell]
Globs == [Int_Glob : Int, Bool_Glob : Int, Ch_1_Glob : {"NUL", "A"}, Ch_2_Glob : {"NUL", "B"},
          Arr_1_Glob : Int, Arr_2_Glob : Int]
Locs == [Run_Index : Int, Int_1 : Int, Int_2 : Int, Int_3 : Int, Enum : Int,
         Str_1 : {First}, Str_2 : {"nothing", Second, Third}]
DhryTypeOK == g \in Globs /\ rec \in Recs /\ l \in Locs

\* How far a run has come.
InLoop == point \in {"proc45", "func2", "while", "proc1", "letters", "arith", "proc2"}
Compared == point \in {"while", "proc1", "letters", "arith", "proc2", "end"}
Counted == point \in {"proc1", "letters", "arith", "proc2", "end"}
Copied == point \in {"letters", "arith", "proc2", "end"}

Loop ==
  /\ InLoop \/ point = "end"
  /\ InLoop => l.Run_Index \in 1 .. Number_Of_Runs
  /\ point = "end" => l.Run_Index = Number_Of_Runs + 1

Globals ==
  /\ point # "proc45" => g.Ch_1_Glob = "A" /\ g.Ch_2_Glob = "B" /\ g.Bool_Glob = 1
  /\ ~Counted => g.Arr_2_Glob = l.Run_Index + 9
  /\ Counted /\ point # "end" => g.Arr_2_Glob = l.Run_Index + 10
  /\ point = "end" => g.Arr_2_Glob = Number_Of_Runs + 10
  /\ Counted => g.Int_Glob = 5 /\ g.Arr_1_Glob = 7

\* The first record keeps pointing at the second, which the call of Proc_1
\* makes a copy of it before anything of it is used.
Records ==
  LET r == rec.Ptr_Glob
      next == rec.Next_Ptr_Glob
  IN  /\ r.Ptr_Comp = "Next_Ptr_Glob" /\ r.Discr = 0 /\ r.Enum_Comp = 2 /\ r.Str_Comp = Some
      /\ Copied => /\ r.Int_Comp = 17
                   /\ next.Ptr_Comp = "Next_Ptr_Glob" /\ next.Discr = 0 /\ next.Enum_Comp = 1
                   /\ next.Int_Comp = 18 /\ next.Str_Comp = Some

Locals ==
  /\ Compared => l.Enum = 1 /\ l.Str_2 = Second
  /\ point = "while" => l.Int_2 = 3 /\ (l.Int_1 = 2 \/ (l.Int_1 = 3 /\ l.Int_3 = 7))
  /\ point \in {"proc1", "letters", "arith"} => l.Int_1 = 3 /\ l.Int_2 = 3 /\ l.Int_3 = 7
  /\ point = "proc2" => l.Int_1 = 1 /\ l.Int_2 = 13 /\ l.Int_3 = 7
  /\ point = "end" => l.Int_1 = 5 /\ l.Int_2 = 13 /\ l.Int_3 = 7

DhryInv == DhryTypeOK /\ Loop /\ Globals /\ Records /\ Locals

-----------------------------------------------------------------------------
\* A record with one number changed is a record, in either place.
LEMMA CellType ==
  ASSUME NEW c \in Cell, NEW i \in Int
  PROVE  [c EXCEPT !.Int_Comp = i] \in Cell /\ [c EXCEPT !.Enum_Comp = i] \in Cell
<1>1. [c EXCEPT !.Int_Comp = i] \in Cell
  BY DEF Cell
<1>2. [c EXCEPT !.Enum_Comp = i] \in Cell
  BY DEF Cell
<1> QED
  BY <1>1, <1>2

LEMMA RecsType ==
  ASSUME NEW r \in Recs, NEW i \in Int
  PROVE  /\ [r EXCEPT !.Ptr_Glob.Int_Comp = i] \in Recs
         /\ [r EXCEPT !["Next_Ptr_Glob"].Int_Comp = i] \in Recs
         /\ [r EXCEPT !["Next_Ptr_Glob"].Enum_Comp = i] \in Recs
<1>1. r.Ptr_Glob \in Cell /\ r["Next_Ptr_Glob"] \in Cell
  BY DEF Recs
<1>2. [r EXCEPT !.Ptr_Glob.Int_Comp = i] \in Recs
  <2> DEFINE c == [r.Ptr_Glob EXCEPT !.Int_Comp = i]
  <2>1. c \in Cell
    BY <1>1, CellType
  <2>2. [r EXCEPT !.Ptr_Glob.Int_Comp = i] = [r EXCEPT !.Ptr_Glob = c]
    OBVIOUS
  <2> HIDE DEF c
  <2> QED
    BY <2>1, <2>2 DEF Recs
<1>3. [r EXCEPT !["Next_Ptr_Glob"].Int_Comp = i] \in Recs
  <2> DEFINE c == [r["Next_Ptr_Glob"] EXCEPT !.Int_Comp = i]
  <2>1. c \in Cell
    BY <1>1, CellType
  <2>2. [r EXCEPT !["Next_Ptr_Glob"].Int_Comp = i] = [r EXCEPT !["Next_Ptr_Glob"] = c]
    OBVIOUS
  <2> HIDE DEF c
  <2> QED
    BY <2>1, <2>2 DEF Recs
<1>4. [r EXCEPT !["Next_Ptr_Glob"].Enum_Comp = i] \in Recs
  <2> DEFINE c == [r["Next_Ptr_Glob"] EXCEPT !.Enum_Comp = i]
  <2>1. c \in Cell
    BY <1>1, CellType
  <2>2. [r EXCEPT !["Next_Ptr_Glob"].Enum_Comp = i] = [r EXCEPT !["Next_Ptr_Glob"] = c]
    OBVIOUS
  <2> HIDE DEF c
  <2> QED
    BY <2>1, <2>2 DEF Recs
<1> QED
  BY <1>2, <1>3, <1>4

\* The same of the globals and of main's locals.
LEMMA GlobsType ==
  ASSUME NEW x \in Globs
  PROVE  /\ \A i \in Int :
              /\ [x EXCEPT !.Int_Glob = i] \in Globs
              /\ [x EXCEPT !.Bool_Glob = i] \in Globs
              /\ [x EXCEPT !.Arr_1_Glob = i] \in Globs
              /\ [x EXCEPT !.Arr_2_Glob = i] \in Globs
         /\ [x EXCEPT !.Ch_1_Glob = "A"] \in Globs
         /\ [x EXCEPT !.Ch_2_Glob = "B"] \in Globs
<1>1. \A i \in Int : [x EXCEPT !.Int_Glob = i] \in Globs
  BY DEF Globs
<1>2. \A i \in Int : [x EXCEPT !.Bool_Glob = i] \in Globs
  BY DEF Globs
<1>3. \A i \in Int : [x EXCEPT !.Arr_1_Glob = i] \in Globs
  BY DEF Globs
<1>4. \A i \in Int : [x EXCEPT !.Arr_2_Glob = i] \in Globs
  BY DEF Globs
<1>5. [x EXCEPT !.Ch_1_Glob = "A"] \in Globs
  BY DEF Globs
<1>6. [x EXCEPT !.Ch_2_Glob = "B"] \in Globs
  BY DEF Globs
<1> QED
  BY <1>1, <1>2, <1>3, <1>4, <1>5, <1>6

LEMMA LocsType ==
  ASSUME NEW x \in Locs
  PROVE  /\ \A i \in Int :
              /\ [x EXCEPT !.Run_Index = i] \in Locs
              /\ [x EXCEPT !.Int_1 = i] \in Locs
              /\ [x EXCEPT !.Int_2 = i] \in Locs
              /\ [x EXCEPT !.Int_3 = i] \in Locs
              /\ [x EXCEPT !.Enum = i] \in Locs
         /\ [x EXCEPT !.Str_2 = Second] \in Locs
<1>1. \A i \in Int : [x EXCEPT !.Run_Index = i] \in Locs
  BY DEF Locs
<1>2. \A i \in Int : [x EXCEPT !.Int_1 = i] \in Locs
  BY DEF Locs
<1>3. \A i \in Int : [x EXCEPT !.Int_2 = i] \in Locs
  BY DEF Locs
<1>4. \A i \in Int : [x EXCEPT !.Int_3 = i] \in Locs
  BY DEF Locs
<1>5. \A i \in Int : [x EXCEPT !.Enum = i] \in Locs
  BY DEF Locs
<1>6. [x EXCEPT !.Str_2 = Second] \in Locs
  BY DEF Locs
<1> QED
  BY <1>1, <1>2, <1>3, <1>4, <1>5, <1>6

\* What Proc_1 makes of two records whose first is as it should be, with
\* Int_Glob 5; the second may hold anything.
LEMMA CopyOfFirst ==
  ASSUME NEW r \in Recs, r.Ptr_Glob.Ptr_Comp = "Next_Ptr_Glob", r.Ptr_Glob.Discr = 0,
         r.Ptr_Glob.Enum_Comp = 2, r.Ptr_Glob.Str_Comp = Some
  PROVE  LET q == Proc_1(r, 5)
         IN  /\ q \in Recs
             /\ q.Ptr_Glob.Ptr_Comp = "Next_Ptr_Glob" /\ q.Ptr_Glob.Discr = 0
             /\ q.Ptr_Glob.Enum_Comp = 2 /\ q.Ptr_Glob.Str_Comp = Some /\ q.Ptr_Glob.Int_Comp = 17
             /\ q.Next_Ptr_Glob.Ptr_Comp = "Next_Ptr_Glob" /\ q.Next_Ptr_Glob.Discr = 0
             /\ q.Next_Ptr_Glob.Enum_Comp = 1 /\ q.Next_Ptr_Glob.Str_Comp = Some
             /\ q.Next_Ptr_Glob.Int_Comp = 18
<1> DEFINE N == "Next_Ptr_Glob"
           Like(s) == /\ s \in Recs /\ s.Ptr_Glob.Ptr_Comp = N /\ s.Ptr_Glob.Discr = 0
                      /\ s.Ptr_Glob.Enum_Comp = 2 /\ s.Ptr_Glob.Str_Comp = Some
           Copy(s) == /\ Like(s) /\ s.Next_Ptr_Glob.Ptr_Comp = N /\ s.Next_Ptr_Glob.Discr = 0
                      /\ s.Next_Ptr_Glob.Str_Comp = Some
           copy == [r EXCEPT ![N] = r.Ptr_Glob]
           f1 == [copy EXCEPT !.Ptr_Glob.Int_Comp = 5]
           f2 == [f1 EXCEPT ![N].Int_Comp = 5]
           f3 == [f2 EXCEPT ![N].Ptr_Comp = copy.Ptr_Glob.Ptr_Comp]
           five == [copy EXCEPT !.Ptr_Glob.Int_Comp = 5, ![N].Int_Comp = 5,
                                ![N].Ptr_Comp = copy.Ptr_Glob.Ptr_Comp]
           p3 == Proc_3(five, N, 5)
           p1 == [five EXCEPT ![N].Ptr_Comp = five.Ptr_Glob.Ptr_Comp]
           p2 == [p1 EXCEPT !.Ptr_Glob.Int_Comp = 17]
           q1 == [p3 EXCEPT ![N].Enum_Comp = 1]
           q2 == [q1 EXCEPT ![N].Ptr_Comp = N]
           q3 == [q2 EXCEPT ![N].Int_Comp = 18]
<1>1. Copy(copy)
  BY DEF Recs, Cell
<1> HIDE DEF copy
<1>2. five = f3
  BY <1>1 DEF Recs, Cell
<1>3. Copy(f1)
  <2>1. f1 \in Recs
    <3>1. copy \in Recs /\ 5 \in Int
      BY <1>1
    <3> QED
      BY <3>1, RecsType, Zenon
  <2> QED
    BY <1>1, <2>1 DEF Recs, Cell
<1>4. Copy(f2)
  BY <1>3 DEF Recs, Cell
<1>5. Copy(f3)
  BY <1>1, <1>4 DEF Recs, Cell
<1>6. Copy(five)
  BY <1>2, <1>5
<1>7. Proc_7(10, 5) = 17 /\ Proc_7(6, 10) = 18 /\ Proc_6(2, 5) = 1
  BY SMT DEF Proc_7, Proc_6
<1> HIDE DEF five
<1>8. p3 = p2
  BY <1>6, <1>7 DEF Proc_3, Recs, Cell
<1>9. Copy(p1)
  BY <1>6 DEF Recs, Cell
<1> HIDE DEF p1
<1>10. Copy(p2) /\ p2.Ptr_Glob.Int_Comp = 17
  <2>1. Copy(p2)
    <3>1. p2 \in Recs
      <4>1. p1 \in Recs /\ 17 \in Int
        BY <1>9
      <4> QED
        BY <4>1, RecsType, Zenon
    <3> QED
      BY <1>9, <3>1 DEF Recs, Cell
  <2>2. p2.Ptr_Glob.Int_Comp = 17
    BY <1>9 DEF Recs, Cell
  <2> QED
    BY <2>1, <2>2
<1>11. Copy(p3) /\ p3.Ptr_Glob.Int_Comp = 17
  BY <1>8, <1>10
<1>12. Proc_1(r, 5) =
         [p3 EXCEPT ![N].Enum_Comp = Proc_6(p3.Ptr_Glob.Enum_Comp, 5),
                    ![N].Ptr_Comp = p3.Ptr_Glob.Ptr_Comp,
                    ![N].Int_Comp = Proc_7(6, 10)]
  BY <1>11 DEF Proc_1, five, copy
<1> HIDE DEF p3
<1>13. Proc_1(r, 5) = q3
  BY <1>7, <1>11, <1>12 DEF Recs, Cell
<1>14. Copy(q1) /\ q1.Ptr_Glob.Int_Comp = 17 /\ q1.Next_Ptr_Glob.Enum_Comp = 1
  <2>1. Copy(q1)
    <3>1. q1 \in Recs
      <4>1. p3 \in Recs /\ 1 \in Int
        BY <1>11
      <4> QED
        BY <4>1, RecsType, Zenon
    <3> QED
      BY <1>11, <3>1 DEF Recs, Cell
  <2>2. q1.Ptr_Glob.Int_Comp = 17 /\ q1.Next_Ptr_Glob.Enum_Comp = 1
    BY <1>11 DEF Recs, Cell
  <2> QED
    BY <2>1, <2>2
<1> HIDE DEF q1
<1>15. Copy(q2) /\ q2.Ptr_Glob.Int_Comp = 17 /\ q2.Next_Ptr_Glob.Enum_Comp = 1
  BY <1>14 DEF Recs, Cell
<1> HIDE DEF q2
<1>16. /\ Copy(q3) /\ q3.Ptr_Glob.Int_Comp = 17
       /\ q3.Next_Ptr_Glob.Enum_Comp = 1 /\ q3.Next_Ptr_Glob.Int_Comp = 18
  <2>1. Copy(q3)
    <3>1. q3 \in Recs
      <4>1. q2 \in Recs /\ 18 \in Int
        BY <1>15
      <4> QED
        BY <4>1, RecsType, Zenon
    <3> QED
      BY <1>15, <3>1 DEF Recs, Cell
  <2>2. /\ q3.Ptr_Glob.Int_Comp = 17
        /\ q3.Next_Ptr_Glob.Enum_Comp = 1 /\ q3.Next_Ptr_Glob.Int_Comp = 18
    BY <1>15 DEF Recs, Cell
  <2> QED
    BY <2>1, <2>2
<1> QED
  BY <1>13, <1>16

-----------------------------------------------------------------------------
\* The strings compare as they are meant to.
LEMMA Strings == Func_2(First, Second) = FALSE
  BY SMT DEF Func_2, Order, First, Second, Third

\* No letter up to 'B' is equal to 'C', so the branch that would spoil
\* Int_2_Loc is never taken.
LEMMA NoLetter == \A c \in {"A", "B"} : Func_1(c, "C") # 1
  BY DEF Func_1

LEMMA DhryStep == SomeRuns /\ DhryInv /\ [DhryNext]_dhry_vars => DhryInv'
<1> SUFFICES ASSUME SomeRuns, DhryInv, [DhryNext]_dhry_vars PROVE DhryInv'
  OBVIOUS
<1> USE DEF DhryInv
<1>0. g \in Globs /\ rec \in Recs /\ l \in Locs
  BY DEF DhryTypeOK
<1>1. CASE Proc_5_4
  <2> DEFINE a == [g EXCEPT !.Ch_1_Glob = "A"]
             b == [a EXCEPT !.Bool_Glob = 1]
             c == [b EXCEPT !.Ch_2_Glob = "B"]
  <2>1. point = "proc45" /\ point' = "func2" /\ g' = c /\ rec' = rec /\ l' = l
    BY <1>1, SMT DEF Proc_5_4
  <2>2. c \in Globs
    <3>1. 1 \in Int
      BY <1>0, SMT DEF Globs
    <3>2. a \in Globs
      BY <1>0, GlobsType, Zenon
    <3> HIDE DEF a
    <3>3. b \in Globs
      BY <3>2, <3>1, GlobsType, Zenon
    <3> HIDE DEF b
    <3> QED
      BY <3>3, GlobsType, Zenon
  <2>3. c.Ch_1_Glob = "A" /\ c.Bool_Glob = 1 /\ c.Ch_2_Glob = "B" /\ c.Arr_2_Glob = g.Arr_2_Glob
    BY <1>0, SMT DEF Globs
  <2> HIDE DEF c
  <2> QED
    BY <1>0, <2>1, <2>2, <2>3, SMT
       DEF DhryTypeOK, Loop, Globals, Records, Locals, InLoop, Compared, Counted, Copied, SomeRuns
<1>2. CASE CompareStrings
  <2> DEFINE m1 == [l EXCEPT !.Int_1 = 2]
             m2 == [m1 EXCEPT !.Int_2 = 3]
             m3 == [m2 EXCEPT !.Str_2 = Second]
             m4 == [m3 EXCEPT !.Enum = 1]
             a == [g EXCEPT !.Bool_Glob = 1]
             b == [a EXCEPT !.Int_Glob = g.Int_Glob]
  <2>0. l.Str_1 = First
    BY <1>0 DEF Locs
  <2>1. point = "func2" /\ point' = "while" /\ rec' = rec /\ g' = b /\ l' = m4
    BY <1>2, <2>0, Strings, SMT DEF CompareStrings
  <2>2. b \in Globs
    <3>1. 1 \in Int /\ g.Int_Glob \in Int
      BY <1>0, SMT DEF Globs
    <3>2. a \in Globs
      BY <1>0, <3>1, GlobsType, Zenon
    <3> HIDE DEF a
    <3> QED
      BY <3>2, <3>1, GlobsType, Zenon
  <2>3. m4 \in Locs
    <3>1. 2 \in Int /\ 3 \in Int /\ 1 \in Int
      BY <1>0, SMT DEF Locs
    <3>2. m1 \in Locs
      BY <1>0, <3>1, LocsType, Zenon
    <3> HIDE DEF m1
    <3>3. m2 \in Locs
      BY <3>2, <3>1, LocsType, Zenon
    <3> HIDE DEF m2
    <3>4. m3 \in Locs
      BY <3>3, LocsType, Zenon
    <3> HIDE DEF m3
    <3> QED
      BY <3>4, <3>1, LocsType, Zenon
  <2>4. b.Bool_Glob = 1 /\ b.Ch_1_Glob = g.Ch_1_Glob /\ b.Ch_2_Glob = g.Ch_2_Glob /\ b.Arr_2_Glob = g.Arr_2_Glob
    BY <1>0, SMT DEF Globs
  <2>5. m4.Int_1 = 2 /\ m4.Int_2 = 3 /\ m4.Str_2 = Second /\ m4.Enum = 1 /\ m4.Run_Index = l.Run_Index
    BY <1>0, SMT DEF Locs
  <2> HIDE DEF b, m4
  <2> QED
    BY <1>0, <2>1, <2>2, <2>3, <2>4, <2>5, SMT
       DEF DhryTypeOK, Loop, Globals, Records, Locals, InLoop, Compared, Counted, Copied, SomeRuns
<1>3. CASE While
  <2> DEFINE i == Proc_7(l.Int_1, l.Int_2)
             m1 == [l EXCEPT !.Int_3 = i]
             m2 == [m1 EXCEPT !.Int_1 = l.Int_1 + 1]
  <2>1. point = "while" /\ l.Int_1 < l.Int_2 /\ point' = point /\ rec' = rec /\ g' = g /\ l' = m2
    BY <1>3, SMT DEF While
  <2>2. m2 \in Locs
    <3>1. i \in Int /\ l.Int_1 + 1 \in Int
      BY <1>0, SMT DEF Locs, Proc_7
    <3>2. m1 \in Locs
      BY <1>0, <3>1, LocsType, Zenon
    <3> HIDE DEF m1
    <3> QED
      BY <3>2, <3>1, LocsType, Zenon
  <2>3. m2.Int_1 = l.Int_1 + 1 /\ m2.Int_2 = l.Int_2 /\ m2.Int_3 = l.Int_2 + (l.Int_1 + 2) /\ m2.Str_2 = l.Str_2 /\ m2.Enum = l.Enum /\ m2.Run_Index = l.Run_Index
    BY <1>0, SMT DEF Locs, Proc_7
  <2> HIDE DEF m2
  <2> QED
    BY <1>0, <2>1, <2>2, <2>3, SMT
       DEF DhryTypeOK, Loop, Globals, Records, Locals, InLoop, Compared, Counted, Copied, SomeRuns
<1>4. CASE Proc_8
  <2> DEFINE a == [g EXCEPT !.Arr_1_Glob = 7]
             b == [a EXCEPT !.Arr_2_Glob = g.Arr_2_Glob + 1]
             c == [b EXCEPT !.Int_Glob = 5]
  <2>0. l.Int_1 = 3 /\ l.Int_2 = 3 /\ l.Int_3 = 7
    BY <1>4, <1>0, SMT DEF Proc_8, Locals, Locs
  <2>1. point = "while" /\ point' = "proc1" /\ rec' = rec /\ g' = c /\ l' = l
    BY <1>4, <2>0, SMT DEF Proc_8
  <2>2. c \in Globs
    <3>1. 7 \in Int /\ (g.Arr_2_Glob + 1) \in Int /\ 5 \in Int
      BY <1>0, SMT DEF Globs
    <3>2. a \in Globs
      BY <1>0, <3>1, GlobsType, Zenon
    <3> HIDE DEF a
    <3>3. b \in Globs
      BY <3>2, <3>1, GlobsType, Zenon
    <3> HIDE DEF b
    <3> QED
      BY <3>3, <3>1, GlobsType, Zenon
  <2>3. c.Ch_1_Glob = g.Ch_1_Glob /\ c.Bool_Glob = g.Bool_Glob /\ c.Ch_2_Glob = g.Ch_2_Glob /\ c.Arr_2_Glob = g.Arr_2_Glob + 1 /\ c.Arr_1_Glob = 7 /\ c.Int_Glob = 5
    BY <1>0, SMT DEF Globs
  <2> HIDE DEF c
  <2> QED
    BY <1>0, <2>0, <2>1, <2>2, <2>3, SMT
       DEF DhryTypeOK, Loop, Globals, Records, Locals, InLoop, Compared, Counted, Copied, SomeRuns
<1>5. CASE CallProc_1
  <2> DEFINE q == Proc_1(rec, 5)
  <2>1. point = "proc1" /\ point' = "letters" /\ rec' = q /\ g' = g /\ l' = l
    BY <1>5, SMT DEF CallProc_1, Globals, Counted
  <2>2. /\ q \in Recs
        /\ q.Ptr_Glob.Ptr_Comp = "Next_Ptr_Glob" /\ q.Ptr_Glob.Discr = 0
        /\ q.Ptr_Glob.Enum_Comp = 2 /\ q.Ptr_Glob.Str_Comp = Some /\ q.Ptr_Glob.Int_Comp = 17
        /\ q.Next_Ptr_Glob.Ptr_Comp = "Next_Ptr_Glob" /\ q.Next_Ptr_Glob.Discr = 0
        /\ q.Next_Ptr_Glob.Enum_Comp = 1 /\ q.Next_Ptr_Glob.Str_Comp = Some
        /\ q.Next_Ptr_Glob.Int_Comp = 18
    BY <1>0, CopyOfFirst DEF Records
  <2> HIDE DEF q
  <2> QED
    BY <1>0, <2>1, <2>2, SMT
       DEF DhryTypeOK, Loop, Globals, Records, Locals, InLoop, Compared, Counted, Copied
<1>6. CASE Letters
  <2>1. point = "letters" /\ g.Ch_2_Glob = "B" /\ l.Enum = 1
    BY <1>6, SMT DEF Letters, Globals, Counted, Locals, Compared
  <2>2. point' = "arith" /\ UNCHANGED <<rec, g, l>>
    BY <1>6, <2>1, NoLetter DEF Letters
  <2> QED
    BY <2>1, <2>2, SMT
       DEF DhryTypeOK, Loop, Globals, Records, Locals, InLoop, Compared, Counted, Copied
<1>7. CASE Arithmetic
  <2> DEFINE m1 == [l EXCEPT !.Int_1 = 1]
             m2 == [m1 EXCEPT !.Int_2 = 13]
  <2>0. l.Int_1 = 3 /\ l.Int_2 = 3 /\ l.Int_3 = 7
    BY <1>7, SMT DEF Arithmetic, Locals
  <2>1. point = "arith" /\ point' = "proc2" /\ rec' = rec /\ g' = g /\ l' = m2
    BY <1>7, <2>0, SMT DEF Arithmetic
  <2>2. m2 \in Locs
    <3>1. 1 \in Int /\ 13 \in Int
      BY <1>0, SMT DEF Locs
    <3>2. m1 \in Locs
      BY <1>0, <3>1, LocsType, Zenon
    <3> HIDE DEF m1
    <3> QED
      BY <3>2, <3>1, LocsType, Zenon
  <2>3. m2.Int_1 = 1 /\ m2.Int_2 = 13 /\ m2.Int_3 = l.Int_3 /\ m2.Str_2 = l.Str_2 /\ m2.Enum = l.Enum /\ m2.Run_Index = l.Run_Index
    BY <1>0, SMT DEF Locs
  <2> HIDE DEF m2
  <2> QED
    BY <1>0, <2>0, <2>1, <2>2, <2>3, SMT
       DEF DhryTypeOK, Loop, Globals, Records, Locals, InLoop, Compared, Counted, Copied, SomeRuns
<1>8. CASE Proc_2
  <2> DEFINE m1 == [l EXCEPT !.Int_1 = 5]
             m2 == [m1 EXCEPT !.Run_Index = l.Run_Index + 1]
  <2>0. l.Int_1 = 1 /\ g.Int_Glob = 5
    BY <1>8, SMT DEF Proc_2, Locals, Globals, Counted
  <2>1. /\ point = "proc2" /\ rec' = rec /\ g' = g /\ l' = m2
        /\ point' = IF l.Run_Index + 1 <= Number_Of_Runs THEN "proc45" ELSE "end"
    BY <1>8, <2>0, SMT DEF Proc_2
  <2>2. m2 \in Locs
    <3>1. 5 \in Int /\ (l.Run_Index + 1) \in Int
      BY <1>0, SMT DEF Locs
    <3>2. m1 \in Locs
      BY <1>0, <3>1, LocsType, Zenon
    <3> HIDE DEF m1
    <3> QED
      BY <3>2, <3>1, LocsType, Zenon
  <2>3. m2.Int_1 = 5 /\ m2.Int_2 = l.Int_2 /\ m2.Int_3 = l.Int_3 /\ m2.Str_2 = l.Str_2 /\ m2.Enum = l.Enum /\ m2.Run_Index = l.Run_Index + 1
    BY <1>0, SMT DEF Locs
  <2> HIDE DEF m2
  <2> QED
    BY <1>0, <2>1, <2>2, <2>3, SMT
       DEF DhryTypeOK, Loop, Globals, Records, Locals, InLoop, Compared, Counted, Copied, SomeRuns
<1>9. CASE UNCHANGED dhry_vars
  BY <1>9, SMT DEF dhry_vars, DhryTypeOK, Loop, Globals, Records, Locals, InLoop, Compared, Counted, Copied
<1> QED
  BY <1>1, <1>2, <1>3, <1>4, <1>5, <1>6, <1>7, <1>8, <1>9 DEF DhryNext

LEMMA DhryStarts == SomeRuns /\ DhryInit => DhryInv
<1> SUFFICES ASSUME SomeRuns, DhryInit PROVE DhryInv
  OBVIOUS
<1>1. point = "proc45"
  BY SMT DEF DhryInit, SomeRuns
<1>2. g \in Globs /\ g.Arr_2_Glob = 10
  BY SMT DEF DhryInit, Globs
<1>3. rec \in Recs /\ Records
  <2>1. rec.Ptr_Glob = [Ptr_Comp |-> "Next_Ptr_Glob", Discr |-> 0, Enum_Comp |-> 2,
                        Int_Comp |-> 40, Str_Comp |-> Some]
    BY DEF DhryInit
  <2>2. rec \in Recs
    BY SMT DEF DhryInit, Recs, Cell
  <2> QED
    BY <1>1, <2>1, <2>2, SMT DEF Records, Copied
<1>4. l \in Locs /\ l.Run_Index = 1
  BY SMT DEF DhryInit, Locs
<1> QED
  BY <1>1, <1>2, <1>3, <1>4, SMT
     DEF DhryInv, DhryTypeOK, Loop, Globals, Locals, InLoop, Compared, Counted, SomeRuns

\* At the end the invariant says what main prints.
LEMMA EndIsRight == SomeRuns /\ DhryInv => ShouldBe
<1> SUFFICES ASSUME SomeRuns, DhryInv, point = "end" PROVE ShouldBe
  BY DEF ShouldBe
<1>1. /\ g.Int_Glob = 5 /\ g.Bool_Glob = 1 /\ g.Ch_1_Glob = "A" /\ g.Ch_2_Glob = "B"
      /\ g.Arr_1_Glob = 7 /\ g.Arr_2_Glob = Number_Of_Runs + 10
  BY DEF DhryInv, Globals, Counted
<1>2. g = [Int_Glob |-> 5, Bool_Glob |-> 1, Ch_1_Glob |-> "A", Ch_2_Glob |-> "B",
           Arr_1_Glob |-> 7, Arr_2_Glob |-> Number_Of_Runs + 10]
  BY <1>1 DEF DhryInv, DhryTypeOK, Globs
<1>3. LET r == rec.Ptr_Glob
          next == rec.Next_Ptr_Glob
      IN  /\ r.Ptr_Comp = "Next_Ptr_Glob" /\ r.Discr = 0 /\ r.Enum_Comp = 2 /\ r.Str_Comp = Some
          /\ r.Int_Comp = 17 /\ r \in Cell /\ next \in Cell
          /\ next.Ptr_Comp = "Next_Ptr_Glob" /\ next.Discr = 0 /\ next.Enum_Comp = 1
          /\ next.Int_Comp = 18 /\ next.Str_Comp = Some
  BY DEF DhryInv, DhryTypeOK, Recs, Records, Copied
<1>4. rec.Ptr_Glob = [Ptr_Comp |-> rec.Next_Ptr_Glob.Ptr_Comp, Discr |-> 0, Enum_Comp |-> 2,
                      Int_Comp |-> 17, Str_Comp |-> Some]
  BY <1>3 DEF Cell
<1>5. rec.Next_Ptr_Glob = [rec.Ptr_Glob EXCEPT !.Enum_Comp = 1, !.Int_Comp = 18]
  <2> DEFINE r == rec.Ptr_Glob
             c1 == [r EXCEPT !.Enum_Comp = 1]
             c2 == [c1 EXCEPT !.Int_Comp = 18]
  <2>1. c2 \in Cell
    <3>1. r \in Cell /\ 1 \in Int /\ 18 \in Int
      BY <1>3, SMT
    <3> HIDE DEF r
    <3>2. c1 \in Cell
      BY <3>1, CellType, Zenon
    <3> HIDE DEF c1
    <3> QED
      BY <3>1, <3>2, CellType, Zenon
  <2>2. /\ c2.Ptr_Comp = "Next_Ptr_Glob" /\ c2.Discr = 0 /\ c2.Enum_Comp = 1
        /\ c2.Int_Comp = 18 /\ c2.Str_Comp = Some
    BY <1>3, SMT DEF Cell
  <2> HIDE DEF c2
  <2>3. c2 = rec.Next_Ptr_Glob
    BY <1>3, <2>1, <2>2, SMT DEF Cell
  <2> QED
    BY <2>3 DEF c2
<1> QED
  BY <1>2, <1>4, <1>5 DEF ShouldBe, DhryInv, Locals, Compared, DhryTypeOK, Locs

LEMMA DhryInvariant ==
  ASSUME SomeRuns
  PROVE  DhrySpec => []DhryInv
<1>1. DhryInit => DhryInv
  BY DhryStarts
<1>2. DhryInv /\ [DhryNext]_dhry_vars => DhryInv'
  BY DhryStep
<1> QED
  BY <1>1, <1>2, PTL DEF DhrySpec

\* After any number of runs, one at least, main's variables have the values
\* it prints as "should be" (dhry_1.c).
THEOREM EndsRight ==
  ASSUME SomeRuns
  PROVE  DhrySpec => []ShouldBe
<1>1. DhryInv => ShouldBe
  BY EndIsRight
<1> QED
  BY DhryInvariant, <1>1, PTL

-----------------------------------------------------------------------------
\* The GPIO demo.

\* The states the proofs speak of.
Pins == {"pin", "red", "green", "blue"}
Frame == [pc : {"loop"}, reg : SUBSET Pins, int_num : 0 .. 52]
SetUps == {"init", "enable", "priority", "rise", "timer"}
ExtHandler == {"claim", "load", "store", "clear", "back", "complete"}
TimerHandler == {"mtimecmp", "leds", "blink"}
InTrap == ExtHandler \cup TimerHandler \cup {"mret", "exit"}

PlicState ==
  [irq : SUBSET Sources, pend : SUBSET Sources, inFlight : SUBSET Sources, enab : SUBSET Sources,
   prio : SUBSET Sources, id : 0 .. 52, req : BOOLEAN, rdata : 0 .. 52]
Accesses == [op : {"none", "other", "claim", "complete"}, s : 0 .. 52]

DemoTypeOK ==
  /\ pc \in SetUps \cup {"loop"} \cup InTrap
  /\ ii \in 0 .. 2 /\ reg \in SUBSET Pins /\ int_num \in 0 .. 52
  /\ out \in SUBSET Pins /\ rise_ie \in SUBSET (0 .. 2)
  /\ mie \in SUBSET {"ext", "timer", "all"}
  /\ plic \in PlicState

\* A trap interrupts main's loop and nothing else: interrupts are off
\* during the set-up and in the handlers.
OneTrap ==
  /\ "all" \in mie => pc = "loop"
  /\ pc \in SetUps \cup {"loop"} => stack = <<>>
  /\ pc \in InTrap => \E f \in Frame : stack = <<f>>

\* What a handler stores is made of what the register still holds.
LoadedIsCurrent == pc \in {"store", "blink"} => reg = out

\* The controller's top source is one it could still give, but for the
\* moment after a claim; a request is never without a source.
Buttoned == {23, 38, 39}
Settled ==
  /\ plic.prio \subseteq Buttoned
  /\ plic.req = (plic.id # 0)
  /\ pc \notin {"load", "complete"} /\ plic.id # 0 => plic.id \in Candidates(plic)
  /\ pc = "claim" => plic.id # 0
  /\ pc \in ExtHandler \ {"claim"} => int_num \in Buttoned

DemoInv == DemoTypeOK /\ OneTrap /\ LoadedIsCurrent /\ NoUpdateLost /\ Settled /\ NeverExits

-----------------------------------------------------------------------------
\* Each handled source has exactly its button.
LEMMA SrcType == \A b \in 0 .. 2 : Src[b] \in Buttoned /\ Led[b] \in Pins
  BY SMT DEF Src, Led, Buttoned, Pins

LEMMA AllHandled == \A s \in Buttoned : Handled(s) # {} /\ Handled(s) \subseteq 0 .. 2
<1>1. Src[0] = 23 /\ Src[1] = 38 /\ Src[2] = 39
  BY SMT DEF Src
<1> QED
  BY <1>1, SMT DEF Handled, Buttoned

LEMMA XorType == \A s \in SUBSET Pins, x \in Pins : Xor(s, x) \in SUBSET Pins
  BY SMT DEF Xor

\* The comparator tree gives a candidate if there is one.
LEMMA TopIsCandidate ==
  ASSUME NEW p \in PlicState, p.prio \subseteq Buttoned
  PROVE  /\ Top(p) \in 0 .. 52
         /\ Top(p) # 0 <=> Candidates(p) # {}
         /\ Top(p) # 0 => Top(p) \in Candidates(p)
<1> DEFINE C == Candidates(p)
<1>1. C \subseteq Buttoned
  BY DEF Candidates
<1>2. CASE C = {}
  BY <1>2, SMT DEF Top
<1>3. CASE C # {}
  <2>1. \E s \in C : \A t \in C : s <= t
    <3> HIDE DEF C
    <3>1. C \subseteq {23, 38, 39}
      BY <1>1 DEF Buttoned
    <3>2. CASE 23 \in C
      BY <3>1, <3>2, SMT
    <3>3. CASE 23 \notin C /\ 38 \in C
      BY <3>1, <3>3, SMT
    <3>4. CASE 23 \notin C /\ 38 \notin C
      <4>1. PICK s \in C : TRUE
        BY <1>3
      <4> QED
        BY <3>1, <3>4, <4>1, SMT
    <3> QED
      BY <3>2, <3>3, <3>4
  <2>2. Top(p) \in C
    BY <1>3, <2>1 DEF Top
  <2> QED
    BY <1>1, <1>3, <2>2, SMT DEF Buttoned
<1> QED
  BY <1>2, <1>3

\* What an edge does to a well-formed controller: without a claim a source
\* that was a candidate stays one, and the new top is one of the old
\* candidates.
LEMMA EdgeStep ==
  ASSUME NEW p \in PlicState, p.prio \subseteq Buttoned,
         NEW lines \in SUBSET Sources, NEW a \in Accesses
  PROVE  LET q == PlicEdge(p, lines, a)
         IN  /\ q \in PlicState
             /\ q.prio \subseteq Buttoned
             /\ q.req = (q.id # 0)
             /\ Candidates(p) # {} => q.id # 0
             /\ a.op # "claim" /\ q.id # 0 => q.id \in Candidates(q)
<1> DEFINE q == PlicEdge(p, lines, a)
<1>1. Top(p) \in 0 .. 52 /\ (Top(p) # 0 <=> Candidates(p) # {}) /\ (Top(p) # 0 => Top(p) \in Candidates(p))
  BY TopIsCandidate
<1>2. Response(p, a) \in 0 .. 52
  BY SMT DEF Response, PlicState
<1>3. /\ q.irq = lines /\ q.enab = p.enab /\ q.prio = p.prio
      /\ q.pend = (p.pend \ Claimed(p, a)) \cup ((p.irq \ p.pend) \ p.inFlight)
      /\ q.inFlight = (p.inFlight \cup (p.irq \ p.pend)) \ Completed(a)
      /\ q.id = Top(p) /\ q.req = (Top(p) # 0) /\ q.rdata = Response(p, a)
  BY DEF PlicEdge, PlicState
<1>4. q \in PlicState
  <2>1. lines \in SUBSET Sources /\ q.pend \in SUBSET Sources /\ q.inFlight \in SUBSET Sources
    BY <1>3 DEF PlicState
  <2>2. Top(p) \in 0 .. 52 /\ (Top(p) # 0) \in BOOLEAN
    BY <1>1
  <2>3. q = [p EXCEPT !.irq = lines, !.pend = q.pend, !.inFlight = q.inFlight,
                      !.id = Top(p), !.req = (Top(p) # 0), !.rdata = Response(p, a)]
    BY <1>3 DEF PlicEdge, PlicState
  <2> HIDE DEF q
  <2> QED
    BY <1>2, <2>1, <2>2, <2>3 DEF PlicState
<1>5. a.op # "claim" => Candidates(p) \subseteq Candidates(q)
  BY <1>3 DEF Candidates, Claimed
<1> QED
  BY <1>1, <1>3, <1>4, <1>5

\* The steps a clock takes with the controller as it is, and no claim.
LEMMA QuietClock ==
  ASSUME DemoTypeOK, Settled, NEW a \in Accesses, a.op # "claim", NEW cleared,
         NEW p \in PlicState, p.prio \subseteq Buttoned, Clock(p, a, cleared)
  PROVE  /\ plic' \in PlicState
         /\ plic'.prio \subseteq Buttoned
         /\ plic'.req = (plic'.id # 0)
         /\ plic'.id # 0 => plic'.id \in Candidates(plic')
         /\ Candidates(p) # {} => plic'.id # 0
<1> DEFINE lines == {Src[b] : b \in rise_ip \cap rise_ie}
<1>1. plic' = PlicEdge(p, lines, a)
  BY DEF Clock
<1>2. lines \in SUBSET Sources
  <2>1. rise_ie \subseteq 0 .. 2
    BY DEF DemoTypeOK
  <2>2. Buttoned \subseteq Sources
    BY SMT DEF Buttoned, Sources
  <2> QED
    BY <2>1, <2>2, SrcType
<1> QED
  BY <1>1, <1>2, EdgeStep

\* The accesses are of their type.
LEMMA AccessType ==
  /\ NoAccess \in Accesses /\ NoAccess.op # "claim"
  /\ Other \in Accesses /\ Other.op # "claim"
  /\ Claim \in Accesses
  /\ \A s \in 0 .. 52 : Complete(s) \in Accesses /\ Complete(s).op # "claim"
  BY SMT DEF Access, NoAccess, Other, Claim, Complete, Accesses

\* An edge without a claim or a driver's call leaves everything settled, if
\* the program does not come to a place where it may not be.
LEMMA EdgeSettles ==
  ASSUME DemoTypeOK, Settled, NEW a \in Accesses, a.op # "claim", NEW cleared,
         Clock(plic, a, cleared),
         pc' = "claim" => pc = "claim" \/ (plic.id # 0 /\ pc \notin {"load", "complete"}),
         pc' \in ExtHandler \ {"claim"} => int_num' \in Buttoned
  PROVE  Settled' /\ plic' \in PlicState
<1>1. plic \in PlicState /\ plic.prio \subseteq Buttoned
  BY DEF DemoTypeOK, Settled
<1>2. /\ plic' \in PlicState
      /\ plic'.prio \subseteq Buttoned
      /\ plic'.req = (plic'.id # 0)
      /\ plic'.id # 0 => plic'.id \in Candidates(plic')
      /\ Candidates(plic) # {} => plic'.id # 0
  BY <1>1, QuietClock
<1>3. pc' = "claim" => Candidates(plic) # {}
  BY DEF Settled
<1> QED
  BY <1>2, <1>3 DEF Settled

-----------------------------------------------------------------------------
\* The driver's calls leave a controller of the same kind, with priority
\* given to the buttons' sources only.
LEMMA DriverCalls ==
  ASSUME DemoTypeOK, Settled
  PROVE  /\ PLIC_init(plic) \in PlicState /\ PLIC_init(plic).prio \subseteq Buttoned
         /\ LET p == PLIC_enable_interrupt(plic, Src[ii])
            IN  p \in PlicState /\ p.prio \subseteq Buttoned
         /\ LET p == PLIC_set_priority(plic, Src[ii])
            IN  p \in PlicState /\ p.prio \subseteq Buttoned
<1>1. plic \in PlicState /\ plic.prio \subseteq Buttoned /\ Src[ii] \in Buttoned /\ Buttoned \subseteq Sources
  BY SrcType, SMT DEF DemoTypeOK, Settled, Buttoned, Sources
<1>2. PLIC_init(plic) \in PlicState /\ PLIC_init(plic).prio \subseteq Buttoned
  BY <1>1 DEF PLIC_init, PlicState
<1>3. LET p == PLIC_enable_interrupt(plic, Src[ii])
      IN  p \in PlicState /\ p.prio \subseteq Buttoned
  <2> DEFINE k == Src[ii] \div 8
             e == StoreByte(plic, k, LoadByte(plic, k) \cup {Src[ii] % 8})
  <2>1. e \in SUBSET Sources
    BY <1>1 DEF StoreByte, PlicState
  <2>2. PLIC_enable_interrupt(plic, Src[ii]) = [plic EXCEPT !.enab = e]
    BY DEF PLIC_enable_interrupt
  <2> HIDE DEF e
  <2> QED
    BY <1>1, <2>1, <2>2 DEF PlicState
<1>4. LET p == PLIC_set_priority(plic, Src[ii])
      IN  p \in PlicState /\ p.prio \subseteq Buttoned
  BY <1>1 DEF PLIC_set_priority, PlicState
<1> QED
  BY <1>2, <1>3, <1>4

\* A step of the set-up, which knows no trap and touches no LED.
LEMMA SetUpStep ==
  ASSUME DemoInv, NEW p \in PlicState, p.prio \subseteq Buttoned, NEW a \in Accesses, a.op # "claim",
         Clock(p, a, {}),
         pc \in SetUps, pc' \in SetUps \cup {"loop"}, ii' \in 0 .. 2,
         rise_ie' \in SUBSET (0 .. 2), mie' \in SUBSET {"ext", "timer", "all"},
         "all" \in mie' => pc' = "loop", UNCHANGED <<reg, int_num, stack, out, want>>
  PROVE  DemoInv'
<1>1. /\ plic' \in PlicState
      /\ plic'.prio \subseteq Buttoned
      /\ plic'.req = (plic'.id # 0)
      /\ plic'.id # 0 => plic'.id \in Candidates(plic')
  BY QuietClock DEF DemoInv
<1>2. pc' \notin InTrap \cup {"store", "blink", "load", "complete", "claim", "exit"} \cup ExtHandler
  BY DEF SetUps, InTrap, ExtHandler, TimerHandler
<1>3. DemoTypeOK'
  BY <1>1 DEF DemoInv, DemoTypeOK
<1>4. OneTrap'
  BY <1>2 DEF DemoInv, OneTrap
<1>5. Settled'
  BY <1>1, <1>2 DEF Settled
<1> QED
  BY <1>2, <1>3, <1>4, <1>5 DEF DemoInv, LoadedIsCurrent, NoUpdateLost, NeverExits

\* Every step preserves the invariant.
LEMMA DemoStep == DemoInv /\ [DemoNext]_demo_vars => DemoInv'
<1> SUFFICES ASSUME DemoInv, [DemoNext]_demo_vars PROVE DemoInv'
  OBVIOUS
<1> USE AccessType
<1>1. CASE SetUpPlic
  <2>1. mie = mie' /\ "all" \notin mie
    BY <1>1 DEF SetUpPlic, Goes, DemoInv, OneTrap
  <2> QED
    BY <1>1, <2>1, DriverCalls, SetUpStep DEF SetUpPlic, Goes, Quiet, SetUps, DemoInv, DemoTypeOK
<1>2. CASE EnableSource
  <2>1. mie = mie' /\ "all" \notin mie
    BY <1>2 DEF EnableSource, ForEach, DemoInv, OneTrap
  <2>2. ii' \in 0 .. 2 /\ pc \in SetUps /\ pc' \in SetUps
    BY <1>2, SMT DEF EnableSource, ForEach, DemoInv, DemoTypeOK, SetUps
  <2> QED
    BY <1>2, <2>1, <2>2, DriverCalls, SetUpStep DEF EnableSource, Quiet, DemoInv, DemoTypeOK
<1>3. CASE SetPriority
  <2>1. mie = mie' /\ "all" \notin mie
    BY <1>3 DEF SetPriority, ForEach, DemoInv, OneTrap
  <2>2. ii' \in 0 .. 2 /\ pc \in SetUps /\ pc' \in SetUps
    BY <1>3, SMT DEF SetPriority, ForEach, DemoInv, DemoTypeOK, SetUps
  <2> QED
    BY <1>3, <2>1, <2>2, DriverCalls, SetUpStep DEF SetPriority, Quiet, DemoInv, DemoTypeOK
<1>4. CASE EnableRise
  <2>1. mie = mie' /\ "all" \notin mie
    BY <1>4 DEF EnableRise, ForEach, DemoInv, OneTrap
  <2>2. ii' \in 0 .. 2 /\ pc \in SetUps /\ pc' \in SetUps /\ rise_ie' \in SUBSET (0 .. 2)
    BY <1>4, SMT DEF EnableRise, ForEach, DemoInv, DemoTypeOK, SetUps
  <2>3. plic \in PlicState /\ plic.prio \subseteq Buttoned
    BY DEF DemoInv, DemoTypeOK, Settled
  <2> QED
    BY <1>4, <2>1, <2>2, <2>3, SetUpStep DEF EnableRise, Edge, Quiet, DemoInv, DemoTypeOK
<1>5. CASE SetTimer
  <2>1. plic \in PlicState /\ plic.prio \subseteq Buttoned
    BY DEF DemoInv, DemoTypeOK, Settled
  <2> QED
    BY <1>5, <2>1, SetUpStep DEF SetTimer, Goes, Quiet, SetUps, DemoInv, DemoTypeOK
<1>6. CASE Bang
  <2>1. Settled' /\ plic' \in PlicState
    BY <1>6, EdgeSettles DEF Bang, Goes, Edge, DemoInv, Settled, DemoTypeOK, ExtHandler
  <2>2. DemoTypeOK'
    BY <1>6, <2>1, XorType DEF Bang, Goes, Edge, DemoInv, DemoTypeOK, SetUps, InTrap, ExtHandler, TimerHandler, Pins
  <2>3. OneTrap'
    BY <1>6 DEF Bang, Goes, Edge, DemoInv, OneTrap, SetUps, InTrap, ExtHandler, TimerHandler
  <2> QED
    BY <1>6, <2>1, <2>2, <2>3 DEF Bang, Goes, Edge, DemoInv, LoadedIsCurrent, NoUpdateLost, NeverExits
<1>7. CASE LoadLeds
  <2>1. Settled' /\ plic' \in PlicState
    BY <1>7, EdgeSettles DEF LoadLeds, Goes, Edge, DemoInv, Settled, DemoTypeOK, ExtHandler
  <2>2. DemoTypeOK'
    BY <1>7, <2>1, XorType DEF LoadLeds, Goes, Edge, DemoInv, DemoTypeOK, SetUps, InTrap, ExtHandler, TimerHandler, Pins
  <2>3. OneTrap'
    BY <1>7 DEF LoadLeds, Goes, Edge, DemoInv, OneTrap, SetUps, InTrap, ExtHandler, TimerHandler
  <2> QED
    BY <1>7, <2>1, <2>2, <2>3 DEF LoadLeds, Goes, Edge, DemoInv, LoadedIsCurrent, NoUpdateLost, NeverExits
<1>8. CASE Back
  <2>1. Settled' /\ plic' \in PlicState
    BY <1>8, EdgeSettles DEF Back, Goes, Edge, Quiet, DemoInv, Settled, DemoTypeOK, ExtHandler
  <2>2. DemoTypeOK'
    BY <1>8, <2>1, XorType DEF Back, Goes, Edge, Quiet, DemoInv, DemoTypeOK, SetUps, InTrap, ExtHandler, TimerHandler, Pins
  <2>3. OneTrap'
    BY <1>8 DEF Back, Goes, Edge, Quiet, DemoInv, OneTrap, SetUps, InTrap, ExtHandler, TimerHandler
  <2> QED
    BY <1>8, <2>1, <2>2, <2>3 DEF Back, Goes, Edge, Quiet, DemoInv, LoadedIsCurrent, NoUpdateLost, NeverExits
<1>9. CASE CompleteSource
  <2>1. Settled' /\ plic' \in PlicState
    BY <1>9, EdgeSettles DEF CompleteSource, Goes, Edge, Quiet, DemoInv, Settled, DemoTypeOK, ExtHandler
  <2>2. DemoTypeOK'
    BY <1>9, <2>1, XorType DEF CompleteSource, Goes, Edge, Quiet, DemoInv, DemoTypeOK, SetUps, InTrap, ExtHandler, TimerHandler, Pins
  <2>3. OneTrap'
    BY <1>9 DEF CompleteSource, Goes, Edge, Quiet, DemoInv, OneTrap, SetUps, InTrap, ExtHandler, TimerHandler
  <2> QED
    BY <1>9, <2>1, <2>2, <2>3 DEF CompleteSource, Goes, Edge, Quiet, DemoInv, LoadedIsCurrent, NoUpdateLost, NeverExits
<1>10. CASE ClearRise
  <2>1. Settled' /\ plic' \in PlicState
    BY <1>10, EdgeSettles DEF ClearRise, Goes, Quiet, DemoInv, Settled, DemoTypeOK, ExtHandler
  <2>2. DemoTypeOK'
    BY <1>10, <2>1, XorType DEF ClearRise, Goes, Quiet, DemoInv, DemoTypeOK, SetUps, InTrap, ExtHandler, TimerHandler, Pins
  <2>3. OneTrap'
    BY <1>10 DEF ClearRise, Goes, Quiet, DemoInv, OneTrap, SetUps, InTrap, ExtHandler, TimerHandler
  <2> QED
    BY <1>10, <2>1, <2>2, <2>3 DEF ClearRise, Goes, Quiet, DemoInv, LoadedIsCurrent, NoUpdateLost, NeverExits
<1>11. CASE Rearm
  <2>1. Settled' /\ plic' \in PlicState
    BY <1>11, EdgeSettles DEF Rearm, Goes, Quiet, DemoInv, Settled, DemoTypeOK, ExtHandler
  <2>2. DemoTypeOK'
    BY <1>11, <2>1, XorType DEF Rearm, Goes, Quiet, DemoInv, DemoTypeOK, SetUps, InTrap, ExtHandler, TimerHandler, Pins
  <2>3. OneTrap'
    BY <1>11 DEF Rearm, Goes, Quiet, DemoInv, OneTrap, SetUps, InTrap, ExtHandler, TimerHandler
  <2> QED
    BY <1>11, <2>1, <2>2, <2>3 DEF Rearm, Goes, Quiet, DemoInv, LoadedIsCurrent, NoUpdateLost, NeverExits
<1>12. CASE LoadForBlink
  <2>1. Settled' /\ plic' \in PlicState
    BY <1>12, EdgeSettles DEF LoadForBlink, Goes, Edge, DemoInv, Settled, DemoTypeOK, ExtHandler
  <2>2. DemoTypeOK'
    BY <1>12, <2>1, XorType DEF LoadForBlink, Goes, Edge, DemoInv, DemoTypeOK, SetUps, InTrap, ExtHandler, TimerHandler, Pins
  <2>3. OneTrap'
    BY <1>12 DEF LoadForBlink, Goes, Edge, DemoInv, OneTrap, SetUps, InTrap, ExtHandler, TimerHandler
  <2> QED
    BY <1>12, <2>1, <2>2, <2>3 DEF LoadForBlink, Goes, Edge, DemoInv, LoadedIsCurrent, NoUpdateLost, NeverExits
<1>13. CASE Blink
  <2>1. Settled' /\ plic' \in PlicState
    BY <1>13, EdgeSettles DEF Blink, Goes, Edge, DemoInv, Settled, DemoTypeOK, ExtHandler
  <2>2. DemoTypeOK'
    BY <1>13, <2>1, XorType DEF Blink, Goes, Edge, DemoInv, DemoTypeOK, SetUps, InTrap, ExtHandler, TimerHandler, Pins
  <2>3. OneTrap'
    BY <1>13 DEF Blink, Goes, Edge, DemoInv, OneTrap, SetUps, InTrap, ExtHandler, TimerHandler
  <2> QED
    BY <1>13, <2>1, <2>2, <2>3 DEF Blink, Goes, Edge, DemoInv, LoadedIsCurrent, NoUpdateLost, NeverExits
<1>14. CASE SetLed
  <2>1. Settled' /\ plic' \in PlicState
    BY <1>14, EdgeSettles DEF SetLed, Goes, Edge, DemoInv, Settled, DemoTypeOK, ExtHandler
  <2>2. DemoTypeOK'
    <3>1. PICK b \in 0 .. 2 : out' = reg \cup {Led[b]} /\ want' = want \cup {Led[b]}
      BY <1>14 DEF SetLed, Handled
    <3>2. out' \in SUBSET Pins
      BY <3>1, SrcType DEF DemoInv, DemoTypeOK
    <3> QED
      BY <1>14, <2>1, <3>2 DEF SetLed, Goes, Edge, DemoInv, DemoTypeOK, InTrap, ExtHandler
  <2>3. OneTrap'
    BY <1>14 DEF SetLed, Goes, Edge, DemoInv, OneTrap, SetUps, InTrap, ExtHandler, TimerHandler
  <2> QED
    BY <1>14, <2>1, <2>2, <2>3 DEF SetLed, Goes, Edge, DemoInv, LoadedIsCurrent, NoUpdateLost, NeverExits
<1>15. CASE Trap
  <2> DEFINE f == [pc |-> pc, reg |-> reg, int_num |-> int_num]
  <2>1. pc = "loop" /\ stack = <<>> /\ f \in Frame
    BY <1>15 DEF Trap, TimerDue, ExtDue, DemoInv, OneTrap, DemoTypeOK, Frame
  <2>2. stack' = <<f>>
    BY <1>15, <2>1 DEF Trap
  <2>3. pc' \in {"mtimecmp", "claim"} /\ (pc' = "claim" => plic.id # 0)
    BY <1>15 DEF Trap, TimerDue, ExtDue, DemoInv, Settled
  <2>4. Settled' /\ plic' \in PlicState
    <3>1. pc' = "claim" => pc = "claim" \/ (plic.id # 0 /\ pc \notin {"load", "complete"})
      BY <2>1, <2>3
    <3>2. pc' \notin ExtHandler \ {"claim"}
      BY <2>3 DEF ExtHandler
    <3> QED
      BY <1>15, <3>1, <3>2, EdgeSettles DEF Trap, Edge, DemoInv
  <2>5. DemoTypeOK'
    BY <1>15, <2>3, <2>4 DEF Trap, DemoInv, DemoTypeOK, InTrap, ExtHandler, TimerHandler
  <2>6. OneTrap'
    BY <1>15, <2>1, <2>2, <2>3 DEF Trap, DemoInv, DemoTypeOK, OneTrap, SetUps
  <2> QED
    BY <1>15, <2>3, <2>4, <2>5, <2>6 DEF Trap, DemoInv, LoadedIsCurrent, NoUpdateLost, NeverExits
<1>16. CASE Return
  <2>1. PICK f \in Frame : stack = <<f>>
    BY <1>16 DEF Return, DemoInv, OneTrap, InTrap
  <2>2. pc' = "loop" /\ reg' \in SUBSET Pins /\ int_num' \in 0 .. 52 /\ stack' = <<>>
    <3>1. Head(stack) = f /\ Tail(stack) = <<>>
      BY <2>1
    <3>2. f.pc = "loop" /\ f.reg \in SUBSET Pins /\ f.int_num \in 0 .. 52
      BY DEF Frame
    <3> QED
      BY <1>16, <3>1, <3>2 DEF Return
  <2>3. Settled' /\ plic' \in PlicState
    BY <1>16, <2>2, EdgeSettles DEF Return, Edge, DemoInv, ExtHandler
  <2>4. DemoTypeOK'
    BY <1>16, <2>2, <2>3 DEF Return, DemoInv, DemoTypeOK
  <2>5. OneTrap'
    BY <2>2 DEF OneTrap, InTrap, ExtHandler, TimerHandler
  <2> QED
    BY <1>16, <2>2, <2>3, <2>4, <2>5 DEF Return, DemoInv, LoadedIsCurrent, NoUpdateLost, NeverExits
<1>17. CASE ClaimSource
  <2>1. plic \in PlicState /\ plic.prio \subseteq Buttoned /\ pc = "claim"
    BY <1>17 DEF ClaimSource, DemoInv, DemoTypeOK, Settled
  <2>2. plic.id \in Buttoned
    BY <2>1 DEF DemoInv, Settled, Candidates
  <2>3. pc' = "load" /\ int_num' = plic.id
    <3>1. plic.id \in 1 .. 51 /\ Handled(plic.id) # {}
      BY <2>2, AllHandled, SMT DEF Buttoned
    <3> QED
      BY <1>17, <3>1 DEF ClaimSource
  <2>4. plic' \in PlicState /\ plic'.prio \subseteq Buttoned /\ plic'.req = (plic'.id # 0)
    <3> DEFINE lines == {Src[b] : b \in rise_ip \cap rise_ie}
    <3>1. plic' = PlicEdge(plic, lines, Claim)
      BY <1>17 DEF ClaimSource, Edge, Clock
    <3>2. lines \in SUBSET Sources
      <4>1. Buttoned \subseteq Sources
        BY SMT DEF Buttoned, Sources
      <4> QED
        BY <4>1, SrcType DEF DemoInv, DemoTypeOK
    <3> HIDE DEF lines
    <3> QED
      BY <2>1, <3>1, <3>2, EdgeStep
  <2>5. Settled'
    BY <2>2, <2>3, <2>4 DEF Settled
  <2>6. DemoTypeOK'
    BY <1>17, <2>2, <2>3, <2>4 DEF ClaimSource, DemoInv, DemoTypeOK, InTrap, ExtHandler, PlicState
  <2>7. OneTrap'
    BY <1>17, <2>1, <2>3 DEF ClaimSource, DemoInv, OneTrap, SetUps, InTrap, ExtHandler
  <2> QED
    BY <1>17, <2>3, <2>5, <2>6, <2>7 DEF ClaimSource, DemoInv, LoadedIsCurrent, NoUpdateLost, NeverExits
<1>18. CASE Wait
  <2>1. Settled' /\ plic' \in PlicState
    BY <1>18, EdgeSettles DEF Wait, cpu, Edge, DemoInv, Settled, DemoTypeOK, ExtHandler
  <2>2. DemoTypeOK'
    BY <1>18, <2>1, XorType DEF Wait, cpu, Edge, DemoInv, DemoTypeOK, SetUps, InTrap, ExtHandler, TimerHandler, Pins
  <2>3. OneTrap'
    BY <1>18 DEF Wait, cpu, Edge, DemoInv, OneTrap, SetUps, InTrap, ExtHandler, TimerHandler
  <2> QED
    BY <1>18, <2>1, <2>2, <2>3 DEF Wait, cpu, Edge, DemoInv, LoadedIsCurrent, NoUpdateLost, NeverExits
<1>19. CASE UNCHANGED demo_vars
  BY <1>19 DEF demo_vars, cpu, DemoInv, DemoTypeOK, OneTrap, LoadedIsCurrent, NoUpdateLost, Settled, NeverExits
<1> QED
  BY <1>1, <1>2, <1>3, <1>4, <1>5, <1>6, <1>7, <1>8, <1>9, <1>10, <1>11, <1>12, <1>13, <1>14, <1>15, <1>16, <1>17, <1>18, <1>19 DEF DemoNext, Cpu

LEMMA DemoStarts == DemoInit => DemoInv
<1> SUFFICES ASSUME DemoInit PROVE DemoInv
  OBVIOUS
<1>1. plic \in PlicState /\ plic.id = 0 /\ plic.req = FALSE /\ plic.prio = {}
  BY SMT DEF DemoInit, PlicInit, PlicState
<1>2. pc = "init" /\ pc \in SetUps /\ pc \notin InTrap /\ pc \notin ExtHandler
  BY DEF DemoInit, SetUps, InTrap, ExtHandler, TimerHandler
<1>3. ii \in 0 .. 2 /\ int_num \in 0 .. 52
  BY SMT DEF DemoInit
<1>4. DemoTypeOK
  BY <1>1, <1>2, <1>3 DEF DemoInit, DemoTypeOK
<1>5. OneTrap /\ LoadedIsCurrent /\ NoUpdateLost /\ NeverExits
  BY <1>2 DEF DemoInit, OneTrap, LoadedIsCurrent, NoUpdateLost, NeverExits
<1>6. Settled
  BY <1>1, <1>2 DEF Settled
<1> QED
  BY <1>4, <1>5, <1>6 DEF DemoInv

LEMMA DemoInvariant == DemoSpec => []DemoInv
<1>1. DemoInv /\ [DemoNext]_demo_vars => DemoInv'
  BY DemoStep
<1> QED
  BY DemoStarts, <1>1, PTL DEF DemoSpec

\* No write to GPIO_OUTPUT_VAL undoes another's (demo_gpio.c): the trap
\* handlers load and store, but nothing comes between, because traps do not
\* nest, and main's inversion is one atomic instruction.
THEOREM UpdatesKept == DemoSpec => []NoUpdateLost
<1>1. DemoInv => NoUpdateLost
  BY DEF DemoInv
<1> QED
  BY DemoInvariant, <1>1, PTL

\* A claim (handle_m_ext_interrupt) always gives a source with a handler:
\* what the controller offered stays pending until it is claimed, although
\* request and source are registered one clock late.
THEOREM ClaimsHandled == DemoSpec => []NeverExits
<1>1. DemoInv => NeverExits
  BY DEF DemoInv
<1> QED
  BY DemoInvariant, <1>1, PTL
=============================================================================
