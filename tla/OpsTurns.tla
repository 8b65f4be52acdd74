------------------------------ MODULE OpsTurns ------------------------------
(***************************************************************************)
(* The turns of one Ops Chat conversation: owner messages sent from several *)
(* tabs, sent again by browsers, and answered by a provider one at a time.  *)
(*   src/src/app/api/ops-chat/route.ts, domain/opschat/turn-claim.ts,       *)
(*   the messages of domain/opschat/conversations.ts.                       *)
(*                                                                         *)
(* A turn is the id a client mints for a message and sends with every retry. *)
(* A claim is an advisory lock of a database session of its own: it ends    *)
(* when it is released, or when that session is lost.                       *)
(***************************************************************************)
EXTENDS Naturals, FiniteSets, FiniteSetsExt

CONSTANTS
  Turns,         \* messages the owner may send
  Tabs,          \* requests in flight at one time
  NoTab,
  PromptTurns,   \* owner messages a prompt is built from (OPS_CHAT_MAX_PROMPT_TURNS)
  MaxTurnFaults  \* bound on crashes, lost connections and failed writes

ASSUME TurnsAssumption ==
  NoTab \notin Tabs \cup Turns /\ IsFiniteSet(Turns) /\ PromptTurns \in Nat \ {0} /\ MaxTurnFaults \in Nat

VARIABLES
  place,     \* seq of the owner message of a turn, 0 before its insert
  sent,      \* turns whose owner message is committed
  reply,     \* status of the reply to a turn
  turnClaim, \* who holds the claim on a turn
  convClaim, \* who holds the claim on the conversation
  tab,       \* per request: its turn, where it is, what its prompt contains
  late,      \* ghost: turns committed after a turn of a higher seq had passed the order gate
  lostClaim, \* ghost: a claim was lost while its holder went on
  turnFaults

turnVars == <<place, sent, reply, turnClaim, convClaim, tab, late, lostClaim, turnFaults>>
messages == <<place, sent, late>>
claims == <<turnClaim, convClaim, lostClaim>>

Replies == {"none", "complete", "interrupted"}
TabSteps == {"idle", "append", "claim", "replay", "converse", "order", "spend", "prompt", "run",
             "releaseConversation", "releaseTurn"} \cup {"complete", "interrupted"}
NoRequest == [at |-> "idle", turn |-> NoTab, prompt |-> {}]

TurnsTypeOK ==
  /\ place \in [Turns -> Nat] /\ sent \subseteq Turns /\ late \subseteq Turns
  /\ reply \in [Turns -> Replies]
  /\ turnClaim \in [Turns -> Tabs \cup {NoTab}] /\ convClaim \in Tabs \cup {NoTab}
  /\ tab \in [Tabs -> [at : TabSteps, turn : Turns \cup {NoTab}, prompt : SUBSET Turns]]
  /\ lostClaim \in BOOLEAN /\ turnFaults \in 0..MaxTurnFaults

TurnsInit ==
  /\ place = [t \in Turns |-> 0] /\ sent = {} /\ late = {}
  /\ reply = [t \in Turns |-> "none"]
  /\ turnClaim = [t \in Turns |-> NoTab] /\ convClaim = NoTab /\ lostClaim = FALSE
  /\ tab = [p \in Tabs |-> NoRequest]
  /\ turnFaults = 0

TurnFault == turnFaults < MaxTurnFaults /\ turnFaults' = turnFaults + 1
Step(p, at) == tab' = [tab EXCEPT ![p].at = at]
EndRequest(p) == tab' = [tab EXCEPT ![p] = NoRequest]
Before(u, t) == place[u] < place[t]
Answered(t) == reply[t] # "none"

-----------------------------------------------------------------------------
\* appendOwnerMessage: the message takes the next seq with its insert, which
\* only the commit makes visible.  A retry of a committed message inserts
\* nothing; the retry of one being inserted waits for its transaction.
AppendOwnerMessage(p, t) ==
  /\ tab[p].at = "idle"
  /\ \/ /\ place[t] = 0
        /\ place' = [place EXCEPT ![t] = Max({place[u] : u \in Turns}) + 1]
        /\ tab' = [tab EXCEPT ![p] = [NoRequest EXCEPT !.at = "append", !.turn = t]]
     \/ /\ t \in sent /\ UNCHANGED place
        /\ tab' = [tab EXCEPT ![p] = [NoRequest EXCEPT !.at = "claim", !.turn = t]]
  /\ UNCHANGED <<sent, reply, late, claims, turnFaults>>

\* The turns that have passed the order gate, now or before.
Started == {t \in Turns : Answered(t)}
             \cup {tab[p].turn : p \in {q \in Tabs : tab[q].at \in {"spend", "prompt", "run"} \cup Replies}}

CommitOwnerMessage(p) ==
  /\ tab[p].at = "append"
  /\ sent' = sent \cup {tab[p].turn}
  /\ late' = late \cup {u \in {tab[p].turn} : \E t \in Started : Before(u, t)}
  /\ Step(p, "claim")
  /\ UNCHANGED <<place, reply, claims, turnFaults>>

-----------------------------------------------------------------------------
\* Seeded bug: a reply is looked for before the claim instead of after it.
ClaimAfterReplayCheck(p) ==
  /\ tab[p].at = "claim"
  /\ IF turnClaim[tab[p].turn] = NoTab
     THEN turnClaim' = [turnClaim EXCEPT ![tab[p].turn] = p] /\ Step(p, "converse")
     ELSE UNCHANGED turnClaim /\ EndRequest(p)
  /\ UNCHANGED <<messages, reply, convClaim, lostClaim, turnFaults>>

\* tryClaimTurn does not wait; who loses goes on to look for a reply.
TryClaimTurn(p) ==
  /\ tab[p].at = "claim"
  /\ turnClaim' = IF turnClaim[tab[p].turn] = NoTab THEN [turnClaim EXCEPT ![tab[p].turn] = p]
                  ELSE turnClaim
  /\ Step(p, "replay")
  /\ UNCHANGED <<messages, reply, convClaim, lostClaim, turnFaults>>

\* What is answered is replayed; who did not get the claim is told to wait.
ReplayReply(p) ==
  /\ tab[p].at = "replay"
  /\ \/ Answered(tab[p].turn) /\ Step(p, "releaseTurn")
     \/ ~Answered(tab[p].turn) /\ turnClaim[tab[p].turn] = p /\ Step(p, "converse")
     \/ ~Answered(tab[p].turn) /\ turnClaim[tab[p].turn] # p /\ EndRequest(p)
  /\ UNCHANGED <<messages, reply, claims, turnFaults>>

TryClaimConversation(p) ==
  /\ tab[p].at = "converse"
  /\ IF convClaim = NoTab
     THEN convClaim' = p /\ Step(p, "order")
     ELSE UNCHANGED convClaim /\ Step(p, "releaseTurn")
  /\ UNCHANGED <<messages, reply, turnClaim, lostClaim, turnFaults>>

Unanswered == {u \in sent : ~Answered(u)}

\* Seeded bug: only one turn at a time, but any turn.
PassAnyTurn(p) ==
  /\ tab[p].at = "order"
  /\ Step(p, "spend")
  /\ UNCHANGED <<messages, reply, claims, turnFaults>>

\* earliestUnansweredOwnerId: a reply of either status answers its turn.
OrderGate(p) ==
  /\ tab[p].at = "order"
  /\ IF Unanswered = {} \/ \E u \in Unanswered : u = tab[p].turn /\ \A v \in Unanswered : ~Before(v, u)
     THEN Step(p, "spend") ELSE Step(p, "releaseConversation")
  /\ UNCHANGED <<messages, reply, claims, turnFaults>>

\* The rate limit or the live pulse may end the request.
SpendGate(p) ==
  /\ tab[p].at = "spend"
  /\ Step(p, "prompt") \/ Step(p, "releaseConversation")
  /\ UNCHANGED <<messages, reply, claims, turnFaults>>

\* u is among the last PromptTurns owner messages up to t.
InWindow(u, t) == Cardinality({v \in sent : Before(u, v) /\ ~Before(t, v)}) < PromptTurns

\* loadPromptTurns: the complete replies to the owner messages of the window
\* that ends with this one, which itself takes one place of it.
LoadPromptTurns(p) ==
  /\ tab[p].at = "prompt"
  /\ tab' = [tab EXCEPT ![p].at = "run",
               ![p].prompt = {u \in sent : /\ Before(u, tab[p].turn) /\ InWindow(u, tab[p].turn)
                                           /\ reply[u] = "complete"}]
  /\ UNCHANGED <<messages, reply, claims, turnFaults>>

\* The tool loop ends, or is cut off by the deadline, an error or the client.
\* An interrupted turn without text leaves no row.
RunProvider(p) ==
  /\ tab[p].at = "run"
  /\ \E end \in {"complete", "interrupted", "releaseConversation"} : Step(p, end)
  /\ UNCHANGED <<messages, reply, claims, turnFaults>>

\* persistReply: the unique index on the answered message refuses a second reply.
PersistReply(p) ==
  /\ tab[p].at \in {"complete", "interrupted"}
  /\ \/ /\ reply' = IF Answered(tab[p].turn) THEN reply
                    ELSE [reply EXCEPT ![tab[p].turn] = tab[p].at]
        /\ UNCHANGED turnFaults
     \/ TurnFault /\ UNCHANGED reply
  /\ Step(p, "releaseConversation")
  /\ UNCHANGED <<messages, claims>>

-----------------------------------------------------------------------------
\* The finally block: both releases, each guarded on its own.  What a session
\* has lost it cannot release.
ReleaseConversation(p) ==
  /\ tab[p].at = "releaseConversation"
  /\ convClaim' = IF convClaim = p THEN NoTab ELSE convClaim
  /\ Step(p, "releaseTurn")
  /\ UNCHANGED <<messages, reply, turnClaim, lostClaim, turnFaults>>

ReleaseTurn(p) ==
  /\ tab[p].at = "releaseTurn"
  /\ turnClaim' = [t \in Turns |-> IF turnClaim[t] = p THEN NoTab ELSE turnClaim[t]]
  /\ EndRequest(p)
  /\ UNCHANGED <<messages, reply, convClaim, lostClaim, turnFaults>>

\* The process of a request dies: its sessions end, an open append is undone.
TabCrash(p) ==
  /\ tab[p].at # "idle" /\ TurnFault
  /\ place' = IF tab[p].at = "append" THEN [place EXCEPT ![tab[p].turn] = 0] ELSE place
  /\ turnClaim' = [t \in Turns |-> IF turnClaim[t] = p THEN NoTab ELSE turnClaim[t]]
  /\ convClaim' = IF convClaim = p THEN NoTab ELSE convClaim
  /\ EndRequest(p)
  /\ UNCHANGED <<sent, reply, late, lostClaim>>

\* The connection behind a claim drops and the request does not notice (a loss
\* between claim and replay check is one right after it).
ClaimLost(p) ==
  /\ tab[p].at \notin {"idle", "replay"} /\ TurnFault
  /\ \/ /\ convClaim = p /\ convClaim' = NoTab /\ UNCHANGED turnClaim
     \/ /\ turnClaim[tab[p].turn] = p /\ turnClaim' = [turnClaim EXCEPT ![tab[p].turn] = NoTab]
        /\ UNCHANGED convClaim
  /\ lostClaim' = TRUE
  /\ UNCHANGED <<messages, reply, tab>>

-----------------------------------------------------------------------------
Handle(p) ==
  \/ CommitOwnerMessage(p) \/ TryClaimTurn(p) \/ ReplayReply(p) \/ TryClaimConversation(p)
  \/ OrderGate(p) \/ SpendGate(p) \/ LoadPromptTurns(p) \/ RunProvider(p) \/ PersistReply(p)
  \/ ReleaseConversation(p) \/ ReleaseTurn(p)

TurnsNext ==
  \E p \in Tabs : Handle(p) \/ TabCrash(p) \/ ClaimLost(p)
                    \/ \E t \in Turns : AppendOwnerMessage(p, t)

TurnsSpec == TurnsInit /\ [][TurnsNext]_turnVars

-----------------------------------------------------------------------------
\* Owner messages are answered in the order they were sent, whichever tab
\* retries first, is refused, crashes or loses a claim; and the prompt of a
\* turn carries the complete answers to the messages before it that are among
\* the last PromptTurns.  A message that got its seq first and was committed
\* only after a later one had passed the gate is not waited for (route.ts step
\* 3c, loadPromptTurns).
AnswersInOrder ==
  /\ \A t, u \in sent \ late : Before(u, t) /\ Answered(t) => Answered(u)
  /\ \A p \in Tabs : tab[p].at = "run" \/ tab[p].at \in Replies =>
       \A u \in sent \ late :
         Before(u, tab[p].turn) /\ InWindow(u, tab[p].turn) /\ reply[u] = "complete"
           => u \in tab[p].prompt

\* While the sessions of the claims live, one request at a time pays a
\* provider in a conversation, and none for a turn that has its answer
\* (turn-claim.ts: "stops two HTTP retries of the SAME send from both entering
\* the provider loop").
RunsAlone ==
  LET paying == {p \in Tabs : tab[p].at \in {"prompt", "run", "complete", "interrupted"}}
  IN lostClaim \/ /\ Cardinality(paying) <= 1
                  /\ \A p \in paying : ~Answered(tab[p].turn)
=============================================================================
