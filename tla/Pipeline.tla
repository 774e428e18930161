------------------------------ MODULE Pipeline ------------------------------
(***************************************************************************)
(* What the grammar of Quash makes of a command line,                      *)
(* shell_simulation/src/parsing/parse.y: one holder for each command, with *)
(* the flags run_script goes by.  A command of a line is                   *)
(* [cmd, redir, bg]: the command, the set of its redirections' flags, and  *)
(* whether an & follows it.                                                *)
(***************************************************************************)
EXTENDS SequencesExt, Integers

\* A command as the grammar reads it; what its program does, it cannot know.
Kinds == {"source", "filter", "idle", "forever"}
Program == [type : STRING, does : Kinds, job : Int]
Redirections == {"REDIRECT_IN", "REDIRECT_OUT", "REDIRECT_APPEND"}
Command == [cmd : Program, redir : SUBSET Redirections, bg : BOOLEAN]

cmd_top(t) ==
  [cmd |-> t.cmd, flags |-> t.redir \union (IF t.bg THEN {"BACKGROUND"} ELSE {})]

\* Mutant: an & after the last command is lost.
Piped_NoBackground(h, rest) ==
  <<[h EXCEPT !.flags = (h.flags \ {"REDIRECT_APPEND", "REDIRECT_OUT"}) \union {"PIPE_OUT"}],
    [rest[1] EXCEPT !.flags = (rest[1].flags \ {"REDIRECT_IN"}) \union {"PIPE_IN"}]>> \o Tail(rest)

\* A command piped into the holders of the rest of the line.
Piped(h, rest) ==
  LET bg == rest[1].flags \intersect {"BACKGROUND"}
  IN <<[h EXCEPT !.flags = (h.flags \ {"REDIRECT_APPEND", "REDIRECT_OUT"}) \union {"PIPE_OUT"} \union bg],
       [rest[1] EXCEPT !.flags = (rest[1].flags \ {"REDIRECT_IN"}) \union {"PIPE_IN"}]>> \o Tail(rest)

\* The holders of a line, without the EOC that ends them.
cmds(line) ==
  FoldRight(LAMBDA t, rest : Piped(cmd_top(t), rest), Front(line), <<cmd_top(Last(line))>>)
=============================================================================
