------------------------ MODULE ExternalRssMainProofs ------------------------
(***************************************************************************)
(* Proof that analyze-external-rss.py exits 0 exactly when it was given a  *)
(* file with at least one valid sample (ExitStatusByData), for every file  *)
(* length and every set of lines.  It rests on the inductive invariant of  *)
(* the analyze_rss loop proved in ExternalRssProofs.                       *)
(***************************************************************************)
EXTENDS ExternalRssMain, ExternalRssProofs, TLAPS

(***************************************************************************)
(* The inductive invariant of main: the loop's invariant; main calls       *)
(* analyze_rss only, so a returning call means the file exists and a      *)
(* raising one that it does not; and the outcome main ends with records    *)
(* how the argument check and the call ended.                              *)
(***************************************************************************)
MIInv ==
    /\ IInv
    /\ reader = "analyze_rss"
    /\ argc \in 1..3
    /\ mpc \in {"argv", "call", "exit"}
    /\ mpc = "argv" => pc = "open" /\ outcome = "running"
    /\ mpc = "call" => argc >= 2 /\ outcome = "running"
    /\ pc \in {"loop", "reduce", "done"} => exists
    /\ pc = "crashed" => ~exists
    /\ mpc = "exit" =>
          \/ argc < 2 /\ outcome = "usage"
          \/ /\ argc >= 2
             /\ pc \in {"done", "crashed"}
             /\ outcome = "traceback" <=> pc = "crashed"
             /\ outcome = "printed" <=> pc = "done" /\ result /= None

LEMMA MainInitMIInv == MainInit => MIInv
<1> SUFFICES ASSUME MainInit PROVE MIInv
    OBVIOUS
<1>1. IInv
    BY IInvInit DEF MainInit
<1> QED
    BY <1>1 DEF MainInit, Init, MIInv

\* Every step of main is a step or a stutter of the analyze_rss loop.
LEMMA MainStepIsLoopStep == [MainNext]_allvars => [Next]_vars
BY DEF MainNext, CheckArgs, CallStep, Return, allvars

LEMMA MainStepMIInv == MIInv /\ [MainNext]_allvars => MIInv'
<1> SUFFICES ASSUME MIInv, [MainNext]_allvars PROVE MIInv'
    OBVIOUS
<1>1. IInv'
    BY MainStepIsLoopStep, IInvStep DEF MIInv
<1>2. CASE CheckArgs
    BY <1>1, <1>2 DEF CheckArgs, MIInv, vars
<1>3. CASE CallStep
    <2>1. mpc = "call" /\ UNCHANGED <<argc, mpc, outcome>>
        BY <1>3 DEF CallStep, mvars
    <2>2. (pc \in {"loop", "reduce", "done"} => exists)' /\ (pc = "crashed" => ~exists)'
        <3>1. CASE Open
            BY <3>1 DEF Open, MIInv
        <3>2. CASE KeepSample \/ SkipLine \/ EndOfFile \/ Reduce
            BY <3>2 DEF KeepSample, SkipLine, EndOfFile, Reduce, MIInv
        <3> QED
            BY <1>3, <3>1, <3>2 DEF CallStep, Next
    <2>3. reader' = reader
        BY <1>3 DEF CallStep, Next, Open, KeepSample, SkipLine, EndOfFile, Reduce
    <2> QED
        BY <1>1, <2>1, <2>2, <2>3 DEF MIInv
<1>4. CASE Return
    <2>1. mpc = "call" /\ mpc' = "exit" /\ UNCHANGED <<argc, vars>>
        BY <1>4 DEF Return
    <2>2. UNCHANGED <<argc, reader, pc, exists, result>>
        BY <2>1 DEF vars
    <2>3. \/ pc = "crashed" /\ outcome' = "traceback"
          \/ pc = "done" /\ result = None /\ outcome' = "no_data"
          \/ pc = "done" /\ result /= None /\ outcome' = "printed"
        BY <1>4 DEF Return
    <2>4. argc >= 2 /\ (pc \in {"loop", "reduce", "done"} => exists)
          /\ (pc = "crashed" => ~exists) /\ reader = "analyze_rss" /\ argc \in 1..3
        BY <2>1 DEF MIInv
    <2>5. (mpc = "exit" => argc >= 2 /\ pc \in {"done", "crashed"}
                            /\ (outcome = "traceback" <=> pc = "crashed")
                            /\ (outcome = "printed" <=> pc = "done" /\ result /= None))'
        BY <2>1, <2>2, <2>3, <2>4
    <2> QED
        BY <1>1, <2>1, <2>2, <2>4, <2>5 DEF MIInv
<1>5. CASE UNCHANGED allvars
    BY <1>1, <1>5 DEF allvars, vars, mvars, MIInv
<1> QED
    BY <1>2, <1>3, <1>4, <1>5 DEF MainNext

LEMMA MIInvExitStatus == MIInv => ExitStatusByData
<1> SUFFICES ASSUME MIInv, mpc = "exit"
             PROVE  ExitStatus(outcome) = 0 <=> argc >= 2 /\ exists /\ SampleIndices /= {}
    BY DEF ExitStatusByData
<1>1. ExitStatus(outcome) = 0 <=> outcome = "printed"
    BY DEF ExitStatus
<1>2. CASE argc < 2
    BY <1>1, <1>2 DEF MIInv
<1>3. CASE argc >= 2 /\ pc = "crashed"
    BY <1>1, <1>3 DEF MIInv
<1>4. CASE argc >= 2 /\ pc = "done"
    <2>1. exists
        BY <1>4 DEF MIInv
    <2>2. result = None <=> SampleIndices = {}
        BY <1>4, <2>1, IInvEmptyResult DEF MIInv, EmptyResultIffNoSample
    <2> QED
        BY <1>1, <1>4, <2>1, <2>2 DEF MIInv
<1> QED
    BY <1>2, <1>3, <1>4 DEF MIInv

(***************************************************************************)
(* Command surface: for every file and argument count, main of             *)
(* analyze-external-rss.py ends with status 0 exactly when it was given a  *)
(* file that exists and has a valid sample line, and with 1 otherwise.     *)
(***************************************************************************)
THEOREM ExitStatusTheorem == MainSpec => []ExitStatusByData
BY MainInitMIInv, MainStepMIInv, MIInvExitStatus, PTL DEF MainSpec

=============================================================================
