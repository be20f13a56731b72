---------------------------------- MODULE MCPs ----------------------------------
(* The instance of Ps that TLC checks. *)
EXTENDS Ps

\* The user's processes on two terminals and behind a pipe; those of another user,
\* on the console and without a terminal.
SetOfProfiles ==
    {[uid |-> "me", stdin |-> "pts/0", terminal |-> "pts/0"],
     [uid |-> "me", stdin |-> "pipe", terminal |-> "pts/0"],
     [uid |-> "me", stdin |-> "console", terminal |-> "console"],
     [uid |-> "other", stdin |-> "null", terminal |-> "none"],
     [uid |-> "other", stdin |-> "console", terminal |-> "console"]}

\* No option, one option each, a list of pids, and a word that is no pid behind -p.
SetOfCommands ==
    {<<>>, <<Word({"a"})>>, <<Word({"u"})>>, <<Word({"h", "x"})>>, <<Word({"e", "f"})>>,
     <<Word({"p"}), Number(1), Number(2)>>, <<Number(2), Word({"p"}), Word({"x"})>>}
================================================================================
