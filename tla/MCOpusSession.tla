---------------------------- MODULE MCOpusSession ----------------------------
(* Two player5s and another device argue about numbers while the unit is     *)
(* off, or one player5, alone with the unit, follows its decks.              *)
(* Beside them is the host of a Mac or a phone that such a session runs in.  *)
(* It shares no state with the sessions: a behaviour is one of theirs or one *)
(* of its own, chosen at the start, and the other rests.                     *)
EXTENDS OpusSession, AppleHost

VARIABLE part    \* the part that moves

MCOtherNumber == [p \in Others |-> 2]
MCConfigured == [s \in Sessions |-> 2]
MCRateOf == [o \in Outputs |-> CASE o = "nothing" -> 0 [] o = "interface" -> 44 [] OTHER -> 48]
MCLocalModes == [kind \in {"internal", "midi"} |-> IF kind = "midi" THEN "jittery" ELSE "internal"]
MCSourceModes == [kind \in {"prodjlink", "link"} |-> IF kind = "link" THEN "exact" ELSE "fine"]

\* One has to find its own address, and does so only once it knows the unit,
\* which is on and plays.
Arguing == awake \cap Discovers = {} /\ unitAt = None
Following == awake = Discovers /\ present = {}
AtStart ==
    \/ Arguing /\ leads = <<>>
    \/ Following /\ unitAt = 1 /\ leads = <<1>> /\ deck[1].phase = 0

MCInit ==
    /\ part \in {"sessions", "host"}
    /\ OpusInit /\ AtStart /\ (part = "host" => Following /\ deck[2].phase = 0)
    /\ output = "speaker" /\ HostInit /\ (part # "host" => platform = "mac")

\* The host may be done, when nothing more is asked of it.
MCNext ==
    /\ UNCHANGED part
    /\ \/ part = "sessions" /\ OpusNext /\ (Arguing' \/ Following') /\ UNCHANGED hostVars
       \/ part = "host" /\ HostNext /\ UNCHANGED opusVars
       \/ part = "host" /\ requests = MaxRequests /\ UNCHANGED <<hostVars, opusVars>>

MCFairness == []<>(part # "sessions" \/ PeriodEnds) /\ []<>(part # "sessions" \/ ~PeriodEnds)

MCSpec == MCInit /\ [][MCNext]_<<opusVars, hostVars, part>> /\ MCFairness
==============================================================================
