----------------------------- MODULE Dhrystone ------------------------------
(***************************************************************************)
(* The Dhrystone benchmark of the E203 software kit (software/dhrystone).  *)
(* The procedures work on each other's results through pointers into two   *)
(* records; a step of main is one call, with every call that call makes.   *)
(***************************************************************************)
EXTENDS Integers

CONSTANT Number_Of_Runs     \* 160000 in dhry_stubs.c

\* A definition whose name ends in Mut is a faulty variant of the next one;
\* no specification uses it.

VARIABLES
  point,         \* the next statement of main's loop
  g,          \* the globals, of the arrays the two elements that are printed
  rec,        \* the records at Ptr_Glob and Next_Ptr_Glob
  l           \* main's locals; ref is what Int_3_Loc's address is used for

dhry_vars == <<point, g, rec, l>>

\* Ident_1 to Ident_5 are 0 to 4.  The strings are told apart by number.
Some == "SOME"
First == "1ST"
Second == "2ND"
Third == "3RD"

\* DhryInit is main up to the loop; malloc does not clear, so the second record
\* has nothing yet, and Discr and Enum_Comp name no value.
DhryInit ==
  /\ point = IF Number_Of_Runs >= 1 THEN "proc45" ELSE "end"
  /\ g = [Int_Glob |-> 0, Bool_Glob |-> 0, Ch_1_Glob |-> "NUL", Ch_2_Glob |-> "NUL",
          Arr_1_Glob |-> 0, Arr_2_Glob |-> 10]
  /\ rec = [Ptr_Glob |-> [Ptr_Comp |-> "Next_Ptr_Glob", Discr |-> 0, Enum_Comp |-> 2,
                          Int_Comp |-> 40, Str_Comp |-> Some],
            Next_Ptr_Glob |-> [Ptr_Comp |-> "nothing", Discr |-> -1, Enum_Comp |-> -1,
                               Int_Comp |-> 0, Str_Comp |-> "nothing"]]
  /\ l = [Run_Index |-> 1, Int_1 |-> 0, Int_2 |-> 0, Int_3 |-> 0, Enum |-> -1, Str_1 |-> First, Str_2 |-> "nothing"]

-----------------------------------------------------------------------------
\* The procedures and functions that only compute.
Proc_7(i, j) == j + (i + 2)
Func_1(c, d) == IF c # d THEN 0 ELSE 1
Func_3(e) == e = 2

Proc_6Mut(e, Int_Glob) ==        \* break forgotten after Ident_3
  CASE e = 0 -> 0
    [] e = 1 -> IF Int_Glob > 100 THEN 0 ELSE 3
    [] OTHER -> IF Func_3(e) THEN e ELSE 3

\* What Proc_6 leaves at Enum_Ref_Par.
Proc_6(e, Int_Glob) ==
  CASE e = 0 -> 0
    [] e = 1 -> IF Int_Glob > 100 THEN 0 ELSE 3
    [] e = 2 -> 1
    [] e = 3 -> IF Func_3(e) THEN e ELSE 3
    [] e = 4 -> 2

\* Func_2 compares third and fourth letters, which differ in the strings it
\* is given, and then the strings: numerals in ascending order.
Order == [s \in {First, Second, Third} |-> CASE s = First -> 1 [] s = Second -> 2 [] s = Third -> 3]
Func_2(s, t) == Order[s] > Order[t]

\* Proc_3 with the address of r's Ptr_Comp: the pointer there, and 10 and
\* Int_Glob added up in the record at Ptr_Glob.
Proc_3(r, at, Int_Glob) ==
  [r EXCEPT ![at].Ptr_Comp = r.Ptr_Glob.Ptr_Comp,
            !.Ptr_Glob.Int_Comp = Proc_7(10, Int_Glob)]

\* Proc_1(Ptr_Glob): the second record becomes a copy of the first.
Proc_1(r, Int_Glob) ==
  LET next == r.Ptr_Glob.Ptr_Comp
      copy == [r EXCEPT ![next] = r.Ptr_Glob]
      five == [copy EXCEPT !.Ptr_Glob.Int_Comp = 5, ![next].Int_Comp = 5,
                           ![next].Ptr_Comp = copy.Ptr_Glob.Ptr_Comp]
      p3 == Proc_3(five, next, Int_Glob)
  IN  IF p3[next].Discr = 0
        THEN [p3 EXCEPT ![next].Enum_Comp = Proc_6(p3.Ptr_Glob.Enum_Comp, Int_Glob),
                        ![next].Ptr_Comp = p3.Ptr_Glob.Ptr_Comp,
                        ![next].Int_Comp = Proc_7(6, 10)]
        ELSE [p3 EXCEPT !.Ptr_Glob = p3[p3.Ptr_Glob.Ptr_Comp]]

-----------------------------------------------------------------------------
\* The loop.
Proc_5_4 ==
  /\ point = "proc45" /\ point' = "func2"
  /\ g' = [g EXCEPT !.Ch_1_Glob = "A", !.Bool_Glob = 1, !.Ch_2_Glob = "B"]
  /\ UNCHANGED <<rec, l>>

CompareStrings ==
  /\ point = "func2" /\ point' = "while"
  /\ l' = [l EXCEPT !.Int_1 = 2, !.Int_2 = 3, !.Str_2 = Second, !.Enum = 1]
  /\ g' = [g EXCEPT !.Bool_Glob = IF Func_2(l.Str_1, Second) THEN 0 ELSE 1,
                    !.Int_Glob = IF Func_2(l.Str_1, Second) THEN 10 ELSE @]
  /\ UNCHANGED rec

While ==
  /\ point = "while" /\ l.Int_1 < l.Int_2
  /\ l' = [l EXCEPT !.Int_3 = Proc_7(l.Int_1, l.Int_2), !.Int_1 = @ + 1]
  /\ UNCHANGED <<point, g, rec>>

\* Proc_8: Arr_1_Glob and Arr_2_Glob are their elements 8 and [8][7].
Proc_8 ==
  /\ point = "while" /\ l.Int_1 >= l.Int_2
  /\ point' = "proc1"
  /\ g' = [g EXCEPT !.Arr_1_Glob = IF l.Int_1 + 5 = 8 THEN l.Int_3 ELSE @,
                    !.Arr_2_Glob = IF l.Int_1 + 5 = 8 THEN @ + 1 ELSE @,
                    !.Int_Glob = 5]
  /\ UNCHANGED <<rec, l>>

CallProc_1 ==
  /\ point = "proc1" /\ point' = "letters"
  /\ rec' = Proc_1(rec, g.Int_Glob)
  /\ UNCHANGED <<g, l>>

\* The letters from 'A' to Ch_2_Glob, 'B', are compared with 'C'.
Letters ==
  /\ point = "letters" /\ point' = "arith"
  /\ IF \E c \in {"A", g.Ch_2_Glob} : Func_1(c, "C") = l.Enum
       THEN /\ l' = [l EXCEPT !.Enum = Proc_6(0, g.Int_Glob), !.Str_2 = Third, !.Int_2 = l.Run_Index]
            /\ g' = [g EXCEPT !.Int_Glob = l.Run_Index]
       ELSE UNCHANGED <<g, l>>
  /\ UNCHANGED rec

Arithmetic ==
  /\ point = "arith" /\ point' = "proc2"
  /\ LET product == l.Int_2 * l.Int_1
         quotient == product \div l.Int_3
     IN  l' = [l EXCEPT !.Int_1 = quotient, !.Int_2 = 7 * (product - l.Int_3) - quotient]
  /\ UNCHANGED <<g, rec>>

\* Proc_2, which would loop for ever if Ch_1_Glob were not 'A', and the next
\* run.
Proc_2 ==
  /\ point = "proc2" /\ g.Ch_1_Glob = "A"
  /\ l' = [l EXCEPT !.Int_1 = (@ + 10 - 1) - g.Int_Glob, !.Run_Index = @ + 1]
  /\ point' = IF l.Run_Index + 1 <= Number_Of_Runs THEN "proc45" ELSE "end"
  /\ UNCHANGED <<g, rec>>

DhryNext ==
  \/ Proc_5_4 \/ CompareStrings \/ While \/ Proc_8
  \/ CallProc_1 \/ Letters \/ Arithmetic \/ Proc_2

DhrySpec == DhryInit /\ [][DhryNext]_dhry_vars /\ WF_dhry_vars(DhryNext)

-----------------------------------------------------------------------------
\* After any number of runs the variables have the values main prints as
\* "should be", although every run starts from what the last one left in the
\* globals and in the two records, which point at each other.
ShouldBe ==
  point = "end" =>
    /\ g = [Int_Glob |-> 5, Bool_Glob |-> 1, Ch_1_Glob |-> "A", Ch_2_Glob |-> "B",
            Arr_1_Glob |-> 7, Arr_2_Glob |-> Number_Of_Runs + 10]
    /\ rec.Ptr_Glob = [Ptr_Comp |-> rec.Next_Ptr_Glob.Ptr_Comp, Discr |-> 0, Enum_Comp |-> 2,
                       Int_Comp |-> 17, Str_Comp |-> Some]
    /\ rec.Next_Ptr_Glob = [rec.Ptr_Glob EXCEPT !.Enum_Comp = 1, !.Int_Comp = 18]
    /\ l.Int_1 = 5 /\ l.Int_2 = 13 /\ l.Int_3 = 7
    /\ l.Enum = 1 /\ l.Str_1 = First /\ l.Str_2 = Second
=============================================================================
