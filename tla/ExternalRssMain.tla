--------------------------- MODULE ExternalRssMain ---------------------------
(***************************************************************************)
(* main of scripts/analyze-external-rss.py composed with the analyze_rss   *)
(* call it makes (module ExternalRss).  main checks its arguments, calls   *)
(* analyze_rss, exits 1 on a None result and otherwise prints the summary  *)
(* (json or text: printing only, left out) and returns, exit status 0.     *)
(* The FileNotFoundError of a missing file is not caught: the interpreter  *)
(* prints a traceback and exits 1.                                         *)
(*                                                                         *)
(* sys.argv is abstracted to its length argc; the file name and the output *)
(* format it carries are the file of ExternalRss and a printing choice.    *)
(***************************************************************************)
EXTENDS ExternalRss

VARIABLES
    argc,       \* len(sys.argv)
    mpc,        \* "argv", "call" or "exit": where main is
    outcome     \* "running", "usage", "no_data", "printed" or "traceback"

mvars == <<argc, mpc, outcome>>
allvars == <<vars, mvars>>

\* The process exit status each way of ending gives.
ExitStatus(o) == IF o = "printed" THEN 0 ELSE 1

\* main always calls analyze_rss, never load_external_rss.
MainInit ==
    /\ Init
    /\ reader = "analyze_rss"
    /\ argc \in 1..3
    /\ mpc = "argv"
    /\ outcome = "running"

\* "if len(sys.argv) < 2: print(usage); sys.exit(1)".
CheckArgs ==
    /\ mpc = "argv"
    /\ \/ /\ argc < 2
          /\ mpc' = "exit"
          /\ outcome' = "usage"
       \/ /\ argc >= 2
          /\ mpc' = "call"
          /\ UNCHANGED outcome
    /\ UNCHANGED <<argc, vars>>

\* result = analyze_rss(filename): one step of the call.
CallStep ==
    /\ mpc = "call"
    /\ Next
    /\ UNCHANGED mvars

\* Mutant: the "if result is None" check dropped; json.dumps(None) prints
\* null and main returns normally.
ReturnNoNoneCheck ==
    /\ mpc = "call"
    /\ pc \in {"done", "crashed"}
    /\ mpc' = "exit"
    /\ outcome' = IF pc = "crashed" THEN "traceback" ELSE "printed"
    /\ UNCHANGED <<argc, vars>>

\* analyze_rss has returned or raised: a traceback, the "No valid RSS data
\* found" exit, or the printed summary.
Return ==
    /\ mpc = "call"
    /\ mpc' = "exit"
    /\ \/ pc = "crashed" /\ outcome' = "traceback"
       \/ pc = "done" /\ result = None /\ outcome' = "no_data"
       \/ pc = "done" /\ result /= None /\ outcome' = "printed"
    /\ UNCHANGED <<argc, vars>>

MainNext == CheckArgs \/ CallStep \/ Return

MainSpec == MainInit /\ [][MainNext]_allvars

-----------------------------------------------------------------------------
(***************************************************************************)
(* Command surface (spec section 4): analyze-external-rss.py exits 0       *)
(* exactly when it was given a file and that file yields at least one      *)
(* valid sample; a missing argument, a missing file and a file without a   *)
(* valid line all end with status 1.                                       *)
(***************************************************************************)
ExitStatusByData ==
    mpc = "exit" =>
        (ExitStatus(outcome) = 0 <=> argc >= 2 /\ exists /\ SampleIndices /= {})

=============================================================================
