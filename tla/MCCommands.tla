----------------------------- MODULE MCCommands -----------------------------
(* Configurations and options for TLC.                                     *)
EXTENDS Commands

CONSTANTS c1, c2, k1, k2

File ==
    [text |-> "toml", strange |-> FALSE, status |-> None, key |-> None,
     git_key |-> None, interval |-> None, store |-> None, on_lock |-> None]

Git == [format |-> None, key |-> k1]

(* A missing file and one for each way to be right or wrong.               *)
MCFiles ==
    { [File EXCEPT !.text = "missing"],
      [File EXCEPT !.text = "malformed"],
      [File EXCEPT !.strange = TRUE, !.status = [watch |-> FALSE]],
      [File EXCEPT !.status = Bad, !.key = k1],
      [File EXCEPT !.key = k2, !.git_key = TRUE],
      [File EXCEPT !.key = k2, !.store = TRUE, !.on_lock = TRUE,
                   !.interval = "huge"] }

MCSetups ==
    [file : MCFiles, git : {Git}]
      \cup {[file |-> [File EXCEPT !.git_key = TRUE], git |-> g] :
              g \in {Git, [Git EXCEPT !.format = "ssh"]}}

Plain == [key |-> None, git_key |-> FALSE, interval |-> None, for |-> None,
          store |-> FALSE, no_store |-> FALSE]

MCWishes ==
    { Plain, [Plain EXCEPT !.key = k2, !.no_store = TRUE],
      [Plain EXCEPT !.git_key = TRUE, !.interval = "ok"] }

MCCmds == {c1, c2}
MCKeys == {k1, k2}
=============================================================================
