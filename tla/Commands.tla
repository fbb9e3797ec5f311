------------------------------- MODULE Commands -------------------------------
(***************************************************************************)
(* What the commands of the binary compute between their reads.            *)
(* bin/birdai/src/main.rs runs one command in a process; the parts a       *)
(* command is made of share no state, so one behaviour is one of them: a   *)
(* swap quoted over a tick index (reproduce, calibrate, follow), the tick  *)
(* of a price searched, an object typed by its layout, a verdict reached   *)
(* (classify), and fixtures captured by one process and loaded by another  *)
(* (fetch, --fixtures).                                                    *)
(***************************************************************************)
EXTENDS Swap, TickMath, Decoding, Classify, Fixtures

VARIABLE part  \* the part at work

commandVars == <<part, vars, searchVars, typingVars, classifyVars, fixtureVars>>

\* A part that is not at work stands in one initial state.
Parts == {"quote", "search", "type", "classify", "fixtures"}

SomeCall ==
  [pool |-> CHOOSE s \in Stray : TRUE, direction |-> "AtoB",
   amountIn |-> CHOOSE a \in Amount : TRUE, limit |-> CHOOSE p \in Price : TRUE]
SomeQuery == CHOOSE p \in Query : TRUE
SomeSubject == CHOOSE s \in Subject : TRUE
SomeHistory == CHOOSE c \in Checkpoints : TRUE

CommandsInit ==
  /\ part \in Parts
  /\ IF part = "quote" THEN Init
     ELSE source = "any" /\ book = <<>> /\ call = SomeCall /\ NothingStepped
  /\ query \in IF part = "search" THEN Query ELSE {SomeQuery}
  /\ NothingSearched
  /\ IF part = "type" THEN DecodingInit
     ELSE wrapped = "foreign" /\ drifted = "UID" /\ changed = <<>> /\ NothingRead
  /\ subject \in IF part = "classify" THEN Subject ELSE {SomeSubject}
  /\ NothingProbed
  /\ history \in IF part = "fixtures" THEN Checkpoints ELSE {SomeHistory}
  /\ NothingCaptured

QuoteNext ==
  /\ part = "quote" /\ Next
  /\ UNCHANGED <<part, searchVars, typingVars, classifyVars, fixtureVars>>

SearchesNext ==
  /\ part = "search" /\ SearchNext
  /\ UNCHANGED <<part, vars, typingVars, classifyVars, fixtureVars>>

TypingNext ==
  /\ part = "type" /\ DecodingNext
  /\ UNCHANGED <<part, vars, searchVars, classifyVars, fixtureVars>>

VerdictNext ==
  /\ part = "classify" /\ ClassifyNext
  /\ UNCHANGED <<part, vars, searchVars, typingVars, fixtureVars>>

CaptureNext ==
  /\ part = "fixtures" /\ FixturesNext
  /\ UNCHANGED <<part, vars, searchVars, typingVars, classifyVars>>

CommandsNext == QuoteNext \/ SearchesNext \/ TypingNext \/ VerdictNext \/ CaptureNext

CommandsSpec == CommandsInit /\ [][CommandsNext]_commandVars

\* The types of the state of the part at work.
CommandsTypeOK ==
  CASE part = "quote" -> TypeOK
    [] part = "search" -> SearchTypeOK
    [] part = "type" -> DecodingTypeOK
    [] part = "classify" -> ClassifyTypeOK
    [] part = "fixtures" -> FixturesTypeOK

=============================================================================
