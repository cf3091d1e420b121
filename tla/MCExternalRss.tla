---------------------------- MODULE MCExternalRss ----------------------------
(***************************************************************************)
(* Model of ExternalRss for TLC: files of at most MaxLines lines drawn     *)
(* from representative lines of an external RSS log.                       *)
(***************************************************************************)
EXTENDS ExternalRss

\* The RSS values (KB) a data line may carry.
MCValues == {0, 1, 3}

\* "" or whitespace only
MCBlank   == [blank |-> TRUE, startsTs |-> FALSE, firstTs |-> FALSE, nfields |-> 1, third |-> NotInt]
\* "timestamp,pid,rss"
MCHeader  == [blank |-> FALSE, startsTs |-> TRUE, firstTs |-> TRUE, nfields |-> 3, third |-> NotInt]
\* "timestamp2,4242,1": a data row whose first field starts with "timestamp"
MCTsData  == [blank |-> FALSE, startsTs |-> TRUE, firstTs |-> FALSE, nfields |-> 3, third |-> 1]
\* "garbage"
MCGarbage == [blank |-> FALSE, startsTs |-> FALSE, firstTs |-> FALSE, nfields |-> 1, third |-> NotInt]
\* "ts1,4242"
MCShort   == [blank |-> FALSE, startsTs |-> FALSE, firstTs |-> FALSE, nfields |-> 2, third |-> NotInt]
\* "ts1,4242,abc"
MCBadInt  == [blank |-> FALSE, startsTs |-> FALSE, firstTs |-> FALSE, nfields |-> 3, third |-> NotInt]
\* "ts1,4242,v"
MCData(v) == [blank |-> FALSE, startsTs |-> FALSE, firstTs |-> FALSE, nfields |-> 3, third |-> v]

MCLineSet == {MCBlank, MCHeader, MCGarbage, MCShort, MCBadInt}
             \cup {MCData(v) : v \in MCValues}

\* The same lines plus a data row starting with "timestamp".
MCLineSetTs == MCLineSet \cup {MCTsData}

\* A data line "ts1,4242,-1": int() parses the minus sign.
MCLineSetNeg == MCLineSet \cup {MCData(-1)}

=============================================================================
