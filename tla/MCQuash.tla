------------------------------- MODULE MCQuash -------------------------------
(***************************************************************************)
(* Small sessions of Quash for TLC: command lines of one to three          *)
(* commands, foreground and background, kills and exits.                   *)
(***************************************************************************)
EXTENDS Quash, TLC

CONSTANTS Names   \* which of the lines below a user enters

Runs(does) == [type |-> "GENERIC", does |-> does, job |-> 0]
Builtin(type, id) == [type |-> type, does |-> "source", job |-> id]
Plain(cmd) == [cmd |-> cmd, redir |-> {}, bg |-> FALSE]
Amp(cmd) == [cmd |-> cmd, redir |-> {}, bg |-> TRUE]

Line(name) ==
  CASE name = "copy"     -> <<Plain(Runs("source")), Plain(Runs("filter"))>>
    [] name = "chain"    -> <<Plain(Builtin("ECHO", 0)), Plain(Runs("filter")), Plain(Runs("filter"))>>
    [] name = "redirect" -> <<[Plain(Runs("source")) EXCEPT !.redir = {"REDIRECT_OUT", "REDIRECT_APPEND"}],
                              [Plain(Runs("filter")) EXCEPT !.redir = {"REDIRECT_IN"}]>>
    [] name = "head"     -> <<Plain(Runs("source")), Plain(Runs("idle"))>>
    [] name = "idle&"    -> <<Amp(Runs("idle"))>>
    [] name = "two&"     -> <<Plain(Runs("idle")), Amp(Runs("idle"))>>
    [] name = "server&"  -> <<Amp(Runs("forever"))>>
    [] name = "jobs"     -> <<Plain(Builtin("JOBS", 0))>>
    [] name = "kill 1"   -> <<Plain(Builtin("KILL", 1))>>
    [] name = "kill 2"   -> <<Plain(Builtin("KILL", 2))>>
    [] name = "exit"     -> <<Plain(Builtin("EXIT", 0))>>

MCLines == {Line(name) : name \in Names}
Symmetry == Permutations(Pids)
=============================================================================
