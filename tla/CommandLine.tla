------------------------------ MODULE CommandLine ------------------------------
(***************************************************************************)
(* The command line of the statically bound programs.  A token is the      *)
(* option it spells, or "", and the number atoi makes of it.               *)
(***************************************************************************)
EXTENDS Integers, Sequences, SequencesExt

Value(n)  == [opt |-> "", val |-> n]
Option(o) == [opt |-> o, val |-> 0]

\* What the tokens after an option are assigned to.
Assigns ==
    [o \in {"-M", "-N", "-P", "-p", "-q", "-T", "-t"} |->
        CASE o = "-M" -> <<"M", "Mb", "mb">>
          [] o = "-N" -> <<"N", "Nb", "nb">>
          [] o = "-P" -> <<"P">> [] o = "-p" -> <<"p">> [] o = "-q" -> <<"q">>
          [] o = "-T" -> <<"to">> [] o = "-t" -> <<"nt">>]

\* What a parameter is that is not given.
Defaults == [f \in UNION {Range(Assigns[o]) : o \in DOMAIN Assigns} |-> -1]

\* The token at the index is looked at.  After an option the index is at its last
\* value, which is looked at in its turn; every other token is passed.
Look(argv, read, i) ==
    IF i # read.index THEN read
    ELSE IF argv[i].opt \notin DOMAIN Assigns THEN [read EXCEPT !.index = i + 1]
    ELSE LET names == Assigns[argv[i].opt]
             given == [f \in Range(names) |->
                          argv[i + CHOOSE k \in DOMAIN names : names[k] = f].val]
         IN [index |-> i + Len(names), params |-> given @@ read.params]

\* The parameters after getCmdLine; the values of an option are all there.
getCmdLine(argv) ==
    FoldLeft(LAMBDA read, i : Look(argv, read, i), [index |-> 1, params |-> Defaults],
             [i \in DOMAIN argv |-> i]).params
===============================================================================
