------------------------------ MODULE Assistant ------------------------------
(***************************************************************************)
(* The AI assistant (agents/assistant.py, application/assistant.py): one    *)
(* run per message, consent -> converse -> save.  An online model may see a *)
(* conversation only after the user agreed to it, once per conversation;    *)
(* the model then asks for tools, some of which start work, until it        *)
(* answers.  Several messages of a conversation can be under way at once,   *)
(* the conversation can be cleared and the standard model changed in        *)
(* between, and a run that is cut off does its node again from the start.   *)
(*                                                                          *)
(* What is said is left out: a request to a model is whom it goes to.       *)
(***************************************************************************)
EXTENDS Naturals, FiniteSets

CONSTANTS
  Chats,         \* conversations of a case
  Turns,         \* messages to the assistant, each with its run
  ChatModels,    \* model providers
  DeviceModels,  \* those of them whose data does not leave the device
  Named,         \* those of them that a message may name
  NoModel,       \* the message names no provider: the standard one answers
  WorkTools,     \* the tools that start work (ToolSpec.starts_work)
  MaxSteps,      \* MAX_STEPS
  MaxSwitches    \* bound: how often the standard model is changed

VARIABLES
  chat,      \* the conversations
  turn,      \* a message and the run that answers it
  done,      \* the ledger of side effects: what became of a tool at a step of a run
  usual,     \* the standard model
  switched   \* how often it was changed

assistantVars == <<chat, turn, done, usual, switched>>

\* exposed and moved are history: the message went to an online model without the
\* user's word for its conversation; the standard model was changed, or the
\* conversation cleared, after the run had asked for that word
NoTurn == [at |-> "none", chat |-> "none", named |-> NoModel, asked |-> "no",
           approved |-> FALSE, model |-> NoModel, step |-> 0, tool |-> "none",
           replied |-> FALSE, exposed |-> FALSE, moved |-> FALSE]

TurnRows ==
  [at: {"none", "consent", "waiting", "converse", "talking", "working", "worked", "save",
        "ended"},
   chat: Chats \cup {"none"}, named: ChatModels \cup {NoModel},
   asked: {"no", "pending", "approved", "rejected"}, approved: BOOLEAN,
   model: ChatModels \cup {NoModel}, step: 0..MaxSteps, tool: WorkTools \cup {"none"},
   replied: BOOLEAN, exposed: BOOLEAN, moved: BOOLEAN]

AssistantTypeOK ==
  /\ chat \in [Chats -> [state : {"new", "open", "cleared"}, consented : BOOLEAN]]
  /\ turn \in [Turns -> TurnRows]
  /\ \A m \in Turns : turn[m].at # "none" => turn[m].chat \in Chats
  /\ done \in [Turns -> [WorkTools \X (0..MaxSteps - 1) ->
                           {"none", "started", "succeeded", "failed", "uncertain"}]]
  /\ usual \in ChatModels /\ switched \in 0..MaxSwitches

AssistantInit ==
  /\ chat = [c \in Chats |-> [state |-> "new", consented |-> FALSE]]
  /\ turn = [m \in Turns |-> NoTurn]
  /\ done = [m \in Turns |-> [w \in WorkTools \X (0..MaxSteps - 1) |-> "none"]]
  /\ usual \in ChatModels
  /\ switched = 0

-----------------------------------------------------------------------------
Go(m, at) == turn' = [turn EXCEPT ![m].at = at]

\* The run is over: what it looked up is not used any more
Over(t) == [NoTurn EXCEPT !.at = "ended", !.chat = t.chat, !.replied = t.replied,
                          !.exposed = t.exposed, !.moved = t.exposed /\ t.moved]
\* Past the node that asks
Underway(m) == turn[m].at \in {"converse", "talking", "working", "worked", "save"}

-----------------------------------------------------------------------------
(* The conversation *)

\* new_conversation, or current_conversation where there is none
NewConversation(c) ==
  /\ chat[c].state = "new"
  /\ chat' = [chat EXCEPT ![c].state = "open"]
  /\ UNCHANGED <<turn, done, usual, switched>>

\* clear_conversation: its messages go with it, and consent ends
ClearConversation(c) ==
  /\ chat[c].state = "open"
  /\ chat' = [chat EXCEPT ![c] = [state |-> "cleared", consented |-> FALSE]]
  /\ turn' = [m \in Turns |-> IF turn[m].chat = c
                THEN [turn[m] EXCEPT !.replied = FALSE, !.moved = @ \/ Underway(m)] ELSE turn[m]]
  /\ UNCHANGED <<done, usual, switched>>

\* start_ai_turn: the message and its run
StartTurn(m, c, named) ==
  /\ turn[m].at = "none" /\ chat[c].state = "open"
  /\ turn' = [turn EXCEPT ![m].at = "consent", ![m].chat = c, ![m].named = named]
  /\ UNCHANGED <<chat, done, usual, switched>>

SetStandard(p) ==
  /\ p # usual /\ switched < MaxSwitches
  /\ usual' = p
  /\ switched' = switched + 1
  /\ turn' = [m \in Turns |-> [turn[m] EXCEPT
                !.moved = @ \/ (turn[m].named = NoModel /\ Underway(m))]]
  /\ UNCHANGED <<chat, done>>

-----------------------------------------------------------------------------
(* The run *)

\* resolve_provider
Resolved(m) == IF turn[m].named = NoModel THEN usual ELSE turn[m].named

\* Mutant of NeedsConsent: who was asked once is not asked again, whatever the answer
MutantNeedsConsent(m) ==
  /\ Resolved(m) \notin DeviceModels /\ ~chat[turn[m].chat].consented
  /\ turn[m].asked \in {"no", "pending"}
\* A model on the device needs none, and a conversation that has it needs no other
NeedsConsent(m) ==
  Resolved(m) \notin DeviceModels /\ ~chat[turn[m].chat].consented

\* consent, which starts over once the user has decided
Consent(m) ==
  /\ turn[m].at = "consent"
  /\ IF chat[turn[m].chat].state = "cleared"
       THEN turn' = [turn EXCEPT ![m] = Over(@)] /\ UNCHANGED chat
     ELSE IF ~NeedsConsent(m)
       THEN /\ turn' = [turn EXCEPT ![m].at = "converse", ![m].approved = TRUE,
                                    ![m].moved = FALSE]
            /\ UNCHANGED chat
     ELSE IF turn[m].asked \in {"no", "pending"}
       THEN /\ turn' = [turn EXCEPT ![m].at = "waiting", ![m].asked = "pending"]
            /\ UNCHANGED chat
     ELSE /\ turn' = [turn EXCEPT ![m].at = "converse", ![m].moved = FALSE,
                                  ![m].approved = (turn[m].asked = "approved")]
          /\ chat' = [chat EXCEPT ![turn[m].chat].consented =
                        @ \/ turn[m].asked = "approved"]  \* record_consent
  /\ UNCHANGED <<done, usual, switched>>

\* decide, of a run that waits
Decide(m, yes) ==
  /\ turn[m].at = "waiting"
  /\ turn' = [turn EXCEPT ![m].at = "consent",
                          ![m].asked = IF yes THEN "approved" ELSE "rejected"]
  /\ UNCHANGED <<chat, done, usual, switched>>

\* converse, to its first request: without consent it answers itself; the model is
\* looked up again; the history and the profile entries are read once
BeginConverse(m) ==
  /\ turn[m].at = "converse"
  /\ turn' = [turn EXCEPT ![m] =
       IF ~@.approved THEN [@ EXCEPT !.at = "save"]
       ELSE IF chat[@.chat].state = "cleared" THEN Over(@)
       ELSE [@ EXCEPT !.at = "talking", !.model = Resolved(m), !.step = 0]]
  /\ UNCHANGED <<chat, done, usual, switched>>

\* A message goes to an online model that its conversation has no consent for
Exposes(m) ==
  turn[m].model \notin DeviceModels /\ ~chat[turn[m].chat].consented

\* The run after a request to its model
Told(m) == [turn[m] EXCEPT !.exposed = @ \/ Exposes(m)]

NextStep(t) == [t EXCEPT !.step = @ + 1, !.tool = "none",
                         !.at = IF t.step + 1 = MaxSteps THEN "save" ELSE "talking"]

\* One request to the model, which answers, or looks something up or is refused
Replies(m) ==
  /\ turn[m].at = "talking"
  /\ turn' = [turn EXCEPT ![m] = [Told(m) EXCEPT !.at = "save"]]
  /\ UNCHANGED <<chat, done, usual, switched>>

LooksUp(m) ==
  /\ turn[m].at = "talking"
  /\ turn' = [turn EXCEPT ![m] = NextStep(Told(m))]
  /\ UNCHANGED <<chat, done, usual, switched>>

\* Or asks for a tool that starts work: what the ledger has of it at this step is not
\* done again, and what it cannot tell ends the run
AsksForWork(m, w) ==
  LET key == <<w, turn[m].step>> IN
  /\ turn[m].at = "talking"
  /\ CASE done[m][key] = "succeeded" ->
            turn' = [turn EXCEPT ![m] = NextStep(Told(m))] /\ UNCHANGED done
       [] done[m][key] \in {"started", "uncertain"} ->
            /\ turn' = [turn EXCEPT ![m] = Over(Told(m))]
            /\ done' = [done EXCEPT ![m][key] = "uncertain"]
       [] OTHER ->
            /\ turn' = [turn EXCEPT ![m] = [Told(m) EXCEPT !.at = "working", !.tool = w]]
            /\ done' = [done EXCEPT ![m][key] = "started"]
  /\ UNCHANGED <<chat, usual, switched>>

\* run_tool, as the screens do it: its transaction; it may refuse, which the ledger has
\* as failed and the model is told
RunTool(m) ==
  /\ turn[m].at = "working"
  /\ \/ Go(m, "worked") /\ UNCHANGED done
     \/ /\ done' = [done EXCEPT ![m][<<turn[m].tool, turn[m].step>>] = "failed"]
        /\ turn' = [turn EXCEPT ![m] = NextStep(@)]
  /\ UNCHANGED <<chat, usual, switched>>

WorkRecorded(m) ==
  /\ turn[m].at = "worked"
  /\ done' = [done EXCEPT ![m][<<turn[m].tool, turn[m].step>>] = "succeeded"]
  /\ turn' = [turn EXCEPT ![m] = NextStep(@)]
  /\ UNCHANGED <<chat, usual, switched>>

\* save: once per run, and not in a conversation that is gone
SaveReply(m) ==
  /\ turn[m].at = "save"
  /\ turn' = [turn EXCEPT ![m] =
       [Over(turn[m]) EXCEPT !.replied = @ \/ chat[turn[m].chat].state = "open"]]
  /\ UNCHANGED <<chat, done, usual, switched>>

\* The node is cut off, by a crash or an error that is tried again, and starts over
TurnCut(m) ==
  /\ turn[m].at \in {"talking", "working", "worked", "save"}
  /\ turn' = [turn EXCEPT ![m].at = "converse", ![m].tool = "none", ![m].model = NoModel,
                          ![m].step = 0]
  /\ UNCHANGED <<chat, done, usual, switched>>

\* A model that gives no answer, or a cancelled run
TurnEnds(m) ==
  /\ turn[m].at \notin {"none", "ended"}
  /\ turn' = [turn EXCEPT ![m] = Over(@)]
  /\ UNCHANGED <<chat, done, usual, switched>>

UserOnAssistant ==
  \/ \E c \in Chats : NewConversation(c) \/ ClearConversation(c)
  \/ \E m \in Turns, c \in Chats, p \in Named \cup {NoModel} : StartTurn(m, c, p)
  \/ \E m \in Turns, yes \in BOOLEAN : Decide(m, yes)
  \/ \E p \in ChatModels : SetStandard(p)

ConverseStep(m) ==
  \/ BeginConverse(m) \/ Replies(m) \/ LooksUp(m) \/ RunTool(m) \/ WorkRecorded(m)
  \/ \E w \in WorkTools : AsksForWork(m, w)

AssistantNext ==
  \/ UserOnAssistant
  \/ \E m \in Turns :
       Consent(m) \/ ConverseStep(m) \/ SaveReply(m) \/ TurnCut(m) \/ TurnEnds(m)

AssistantSpec == AssistantInit /\ [][AssistantNext]_assistantVars

-----------------------------------------------------------------------------
(* Properties *)

\* What goes to an online model is a conversation the user agreed to share, whichever of
\* its messages the user was asked about and however often a node was done again; except
\* that the run looks only once: the standard model may be another one by the time of
\* the request, and the conversation may be cleared before the run is through with it.
ConsentBeforeOnline == \A m \in Turns : turn[m].exposed => turn[m].moved
=============================================================================
