---------------------------- MODULE MCStreamHost ----------------------------
(***************************************************************************)
(* StreamHost with nine scripts.                                          *)
(*                                                                         *)
(*   1  the service of doc/dajet-script/simple-service-example             *)
(*   9  the tasks of doc/dajet-script/execute/async                        *)
(*   17 a task that is waited for with a timeout                           *)
(*   25 a loop with a TRY around its work                                  *)
(*   34 a loop in a CASE, which Dispose does not get to, or a call         *)
(*   41 a loop that sleeps, 44 no statement                                *)
(*   47 a loop inside of a loop, 51 a loop that works                      *)
(***************************************************************************)
EXTENDS StreamHost

(* The statements, by their numbers.                                       *)
St(kind, next, body, other, last, flag) ==
    [kind |-> kind, next |-> next, body |-> body, other |-> other,
     last |-> last, flag |-> flag]

Simple(kind, next)      == St(kind, next, Null, Null, Null, FALSE)
Flagged(kind, next)     == St(kind, next, Null, Null, Null, TRUE)
Block(kind, next, body) == St(kind, next, body, Null, Null, TRUE)

MCScript ==
    << Block("root", Null, 2),
       Block("while", Null, 3),
       Block("execute", 6, 4),                  \* INTO @monitor
       Flagged("work", 5),                      \* SELECT
       Simple("return", Null),
       Block("for", 8, 7),
       Simple("work", Null),                    \* PRINT
       Simple("sleep", Null),

       Block("root", Null, 10),                 \* 9
       Block("task", 11, 14),
       Block("task", 12, 15),
       Simple("all", 13),                       \* WAIT ALL
       Simple("any", Null),                     \* WAIT ANY
       Simple("return", Null),
       Flagged("work", Null),
       Simple("work", Null),

       Block("root", Null, 18),                 \* 17
       Block("task", 19, 22),
       Flagged("all", 20),                      \* WAIT ALL ... TIMEOUT
       Flagged("any", 21),                      \* WAIT ANY ... TIMEOUT
       Simple("any", Null),                     \* WAIT ANY
       St("if", Null, 23, 24, Null, FALSE),
       Simple("return", Null),
       Simple("throw", Null),

       Block("root", Null, 26),                 \* 25
       Block("while", Null, 27),
       St("try", 33, 28, 31, 32, FALSE),
       St("if", Null, 29, 30, Null, TRUE),
       Simple("break", Null),
       Flagged("work", Null),
       Simple("continue", Null),                \* CATCH
       Simple("work", Null),                    \* FINALLY
       Simple("sleep", Null),

       Block("root", Null, 35),                 \* 34
       St("case", Null, 36, 45, Null, FALSE),
       St("while", Null, 37, Null, Null, FALSE),
       St("if", Null, 38, 39, Null, FALSE),
       Simple("break", Null),
       Block("try", Null, 40),
       Simple("return", Null),

       Block("root", Null, 42),                 \* 41
       Block("while", Null, 43),
       Simple("sleep", Null),

       Block("root", Null, Null),               \* 44: declarations only

       St("execute", Null, 46, Null, Null, FALSE),
       Simple("work", Null),

       Block("root", Null, 48),                 \* 47
       Block("while", Null, 49),
       St("while", Null, 50, Null, Null, FALSE),
       Simple("work", Null),

       Block("root", Null, 52),                 \* 51
       Block("while", Null, 53),
       Simple("work", Null) >>

CONSTANTS a, b

Situation(m, n, e) ==
    [files |-> [f \in {a, b} |-> IF f = a THEN m ELSE n], events |-> e]

MCSituations ==
    { Situation(1, Null, <<"delete">>),
      Situation(9, Null, <<>>), Situation(17, Null, <<>>),
      Situation(25, Null, <<"stop">>),
      Situation(34, Null, <<"stop">>),
      Situation(41, Null, <<"stop", "timeout">>),
      Situation(44, Null, <<"stop", "timeout">>),
      Situation(44, 44, <<"delete">>),
      Situation(47, Null, <<"delete">>),
      Situation(47, Null, <<"stop">>),
      Situation(51, Null, <<"rename">>),
      Situation(51, Null, <<"delete", "write">>),
      Situation(51, Null, <<"delete", "stop", "timeout">>) }

=============================================================================
