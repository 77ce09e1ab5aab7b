-------------------------------- MODULE Rotation -------------------------------
(***************************************************************************)
(* The rotation between the members of an aggregate provider              *)
(* (relay_rotation.rs) under the requests of the local proxy              *)
(* (protocol_proxy.rs, open_responses_proxy_request and the two probes).   *)
(* Each request reads the settings once, asks the one selector of the      *)
(* process for a member, and goes on to the other members until one        *)
(* answers; every failure is noted in the selector, which may by then be   *)
(* that of other settings.  The Manager saves settings meanwhile.          *)
(*                                                                         *)
(* A snapshot of the settings holds what active_aggregate_relay_profile    *)
(* and active_relay_profile return of it, and of every relay whether its   *)
(* profile is there, has an address and a key, and which models it lists   *)
(* (none: it serves all).  The answer of a relay is its status line: the   *)
(* proxy does not return to another member once a stream has begun.        *)
(***************************************************************************)
EXTENDS Naturals, Sequences, SequencesExt, FiniteSets

CONSTANTS
    Relays,
    Conversations,
    Models,
    None,
    Snapshots,      \* the settings the Manager may save
    Requests,       \* requests under way at a time
    MaxRequests,    \* bound on requests and probes together
    MaxSaves        \* bound on saved settings

VARIABLES
    settings,       \* settings.json
    selector,       \* GLOBAL_SELECTOR
    req,            \* the requests
    given,          \* history: the turns each relay had of this selector
    held,           \* history: the member a conversation had since the save
    overtaken,      \* history: a save came before a request had ended
    budget          \* requests and saves so far

rotation_vars == <<settings, selector, req, given, held, overtaken, budget>>

Strategies == {"failover", "conversation", "request", "weighted"}

Aggregates ==
    [strategy : Strategies, members : Seq([relay : Relays, weight : Nat])]

Selectors ==
    [agg : Aggregates, failover : Nat, request : Nat, weighted : Nat,
     assigned : [Conversations -> Relays \cup {None}]]

(* The Manager's editor takes a relay into an aggregate once. *)
ASSUME SnapshotsAreSound ==
    \A s \in Snapshots :
        /\ s.agg = None => s.regular \in Relays
        /\ s.agg # None =>
              /\ s.agg \in Aggregates
              /\ IsInjective([i \in DOMAIN s.agg.members |-> s.agg.members[i].relay])

ASSUME NoneIsNothing ==
    /\ None \notin Relays \cup Conversations \cup Models \cup Snapshots
    /\ None \notin Selectors

ASSUME SizesAreFinite ==
    IsFiniteSet(Relays) /\ IsFiniteSet(Requests) /\ {MaxRequests, MaxSaves} \subseteq Nat

(* RelayRotationSelector::from_settings, of members that are all usable. *)
NewSelector(agg) ==
    [agg |-> agg, failover |-> 0, request |-> 0, weighted |-> 0,
     assigned |-> [c \in Conversations |-> None]]

NoTurns == [r \in Relays |-> 0]
NotHeld == [c \in Conversations |-> None]

\* alone: no other request has been under way with it.
NoRequest == [pc |-> "idle", probe |-> FALSE, conv |-> None, model |-> None,
              read |-> None, left |-> <<>>, tried |-> <<>>, alone |-> FALSE]

RotationInit ==
    /\ settings \in Snapshots
    /\ selector = None
    /\ req = [q \in Requests |-> NoRequest]
    /\ given = NoTurns /\ held = NotHeld /\ overtaken = FALSE
    /\ budget = [requests |-> MaxRequests, saves |-> MaxSaves]

RotationTypeOK ==
    /\ settings \in Snapshots
    /\ selector # None =>
         selector \in Selectors /\ \E s \in Snapshots : s.agg # None /\ selector.agg = s.agg
    /\ req \in [Requests ->
           [pc : {"idle", "loaded", "trying", "answered", "failed", "refused"},
            probe : BOOLEAN, alone : BOOLEAN, read : Snapshots \cup {None},
            conv : Conversations \cup {None}, model : Models \cup {None},
            left : SeqOf(Relays, Cardinality(Relays)),
            tried : SeqOf(Relays, Cardinality(Relays))]]
    /\ given \in [Relays -> 0 .. MaxRequests]
    /\ held \in [Conversations -> Relays \cup {None}]
    /\ overtaken \in BOOLEAN
    /\ budget \in [requests : 0 .. MaxRequests, saves : 0 .. MaxSaves]

UnderWay(q) == req[q].pc \in {"loaded", "trying"}

(***************************************************************************)
(* The members of an aggregate and the turns they take.                    *)
(***************************************************************************)
Members(agg) == [i \in DOMAIN agg.members |-> agg.members[i].relay]

\* A weight of 0 counts as 1.
Schedule(agg) ==
    FlattenSeq([i \in DOMAIN agg.members |->
        [n \in 1 .. (IF agg.members[i].weight = 0 THEN 1 ELSE agg.members[i].weight) |->
            agg.members[i].relay]])

At(list, i) == list[(i % Len(list)) + 1]

\* validate_aggregate_members
AllUsable(s) ==
    s.agg.members # <<>> /\ Range(Members(s.agg)) \subseteq s.present \cap s.usable

\* model_routed_relays: it fails on a member without a profile, and does
\* nothing unless some member lists models.
Routed(s, model) ==
    /\ model # None
    /\ \E r \in Range(Members(s.agg)) : r \notin s.present \/ s.serves[r] # {}

Eligible(s, model) ==
    FlattenSeq([i \in DOMAIN s.agg.members |->
        LET r == s.agg.members[i].relay
        IN IF s.serves[r] = {} \/ model \in s.serves[r] THEN <<r>> ELSE <<>>])

\* Routing answers the request by itself: with members, or with an error.
RouteFails(s, model) ==
    \/ ~(Range(Members(s.agg)) \subseteq s.present)
    \/ Eligible(s, model) = <<>>

\* fallback_relays_after: the other members, from the one after r round to
\* the one before it.
After(list, r) ==
    LET at == SelectInSeq(list, LAMBDA x : x = r)
    IN [k \in 1 .. (Len(list) - 1) |-> At(list, at + k - 1)]

(***************************************************************************)
(* The selector.  Its methods run under its mutex.                         *)
(***************************************************************************)
\* The selector a request of these settings finds or makes.
Ensured(s) ==
    IF selector # None /\ selector.agg = s.agg THEN selector ELSE NewSelector(s.agg)

MadeAnew(s) == selector = None \/ selector.agg # s.agg

\* member_id_at
MemberAt(sel, i) == At(Members(sel.agg), i)

\* peek: what select would return to a request without a conversation.
Peek(sel) ==
    CASE sel.agg.strategy = "failover" -> MemberAt(sel, sel.failover)
      [] sel.agg.strategy \in {"conversation", "request"} -> MemberAt(sel, sel.request)
      [] sel.agg.strategy = "weighted" -> At(Schedule(sel.agg), sel.weighted)

\* Mutant: a weighted turn is counted by members.
TakeTurnOfMembers(sel) ==
    IF sel.agg.strategy = "weighted"
    THEN [sel EXCEPT !.weighted = (@ + 1) % Len(sel.agg.members)]
    ELSE [sel EXCEPT !.request = (@ + 1) % Len(sel.agg.members)]

\* select_next_request and select_next_weighted.
TakeTurn(sel) ==
    IF sel.agg.strategy = "weighted"
    THEN [sel EXCEPT !.weighted = (@ + 1) % Len(Schedule(sel.agg))]
    ELSE [sel EXCEPT !.request = (@ + 1) % Len(sel.agg.members)]

\* A conversation that has its member takes no turn.
Assigned(sel, conv) ==
    sel.agg.strategy = "conversation" /\ conv # None /\ sel.assigned[conv] # None

TakesTurn(sel, conv) == sel.agg.strategy # "failover" /\ ~Assigned(sel, conv)

\* select
Selected(sel, conv) == IF Assigned(sel, conv) THEN sel.assigned[conv] ELSE Peek(sel)

Assign(sel, conv, r) ==
    IF sel.agg.strategy = "conversation" /\ conv # None
    THEN [sel EXCEPT !.assigned[conv] = r] ELSE sel

AfterSelect(sel, conv) ==
    IF TakesTurn(sel, conv) THEN Assign(TakeTurn(sel), conv, Selected(sel, conv)) ELSE sel

\* Mutant: a success moves on as a failure does.
NotedAlways(s, failed) ==
    IF s.agg = None THEN None
    ELSE IF selector # None /\ selector.agg.strategy = "failover"
         THEN [selector EXCEPT !.failover = (@ + 1) % Len(selector.agg.members)]
         ELSE selector

\* record_relay_request_event.  The settings are those the request read, the
\* selector whichever there is.
Noted(s, failed) ==
    IF s.agg = None THEN None
    ELSE IF failed /\ selector # None /\ selector.agg.strategy = "failover"
         THEN [selector EXCEPT !.failover = (@ + 1) % Len(selector.agg.members)]
         ELSE selector

(***************************************************************************)
(* A request.                                                              *)
(***************************************************************************)
Goes(q, r) == req' = [req EXCEPT ![q] = r]

\* Of a request that has ended only how it ended is kept.
Ends(q, pc) == Goes(q, [NoRequest EXCEPT !.pc = pc])

Refuse(q) == Ends(q, "refused")

\* It reads the settings; settings that cannot be read end it here.
StartRequest(q, probe, conv, model) ==
    /\ ~UnderWay(q)
    /\ budget.requests > 0
    /\ budget' = [budget EXCEPT !.requests = @ - 1]
    /\ LET others == {p \in Requests : UnderWay(p) /\ ~req[p].probe}
       IN req' = [p \in Requests |->
            IF p = q
            THEN [NoRequest EXCEPT !.pc = "loaded", !.probe = probe, !.conv = conv,
                                   !.model = model, !.read = settings, !.alone = others = {}]
            ELSE IF probe THEN req[p] ELSE [req[p] EXCEPT !.alone = FALSE]]
    /\ UNCHANGED <<settings, selector, given, held, overtaken>>

\* A probe is for the models list or a transcription: it has neither
\* conversation nor model.
Starts(q) ==
    \/ StartRequest(q, TRUE, None, None)
    \/ \E conv \in Conversations \cup {None}, model \in Models \cup {None} :
           StartRequest(q, FALSE, conv, model)

\* No aggregate is active: the one active relay, and no selector any more.
SelectRegular(q) ==
    LET s == req[q].read
    IN /\ req[q].pc = "loaded" /\ s.agg = None
       /\ selector' = None
       /\ Goes(q, [req[q] EXCEPT !.pc = "trying", !.left = <<s.regular>>])
       /\ given' = NoTurns
       /\ UNCHANGED <<settings, held, overtaken, budget>>

ByRoute(q) == req[q].read.agg # None /\ Routed(req[q].read, req[q].model)
ByTurn(q)  == req[q].read.agg # None /\ ~Routed(req[q].read, req[q].model)

\* The model decides, and the selector is not asked.
SelectByModel(q) ==
    /\ req[q].pc = "loaded" /\ ByRoute(q)
    /\ IF RouteFails(req[q].read, req[q].model)
       THEN Refuse(q)
       ELSE Goes(q, [req[q] EXCEPT !.pc = "trying",
                                   !.left = Eligible(req[q].read, req[q].model)])
    /\ UNCHANGED <<settings, selector, given, held, overtaken, budget>>

\* select_relay_for_request and fallback_relays_for_request.
SelectByTurn(q) ==
    LET s == req[q].read
        sel == Ensured(s)
        conv == req[q].conv
        first == Selected(sel, conv)
        since == IF MadeAnew(s) THEN NoTurns ELSE given
    IN /\ req[q].pc = "loaded" /\ ~req[q].probe /\ ByTurn(q)
       /\ IF ~AllUsable(s)
          THEN Refuse(q) /\ UNCHANGED <<selector, given, held>>
          ELSE /\ selector' = AfterSelect(sel, conv)
               /\ Goes(q, [req[q] EXCEPT !.pc = "trying",
                                         !.left = <<first>> \o After(Members(s.agg), first)])
               /\ given' = IF TakesTurn(sel, conv)
                           THEN [since EXCEPT ![first] = @ + 1] ELSE since
               /\ held' = IF conv = None \/ s # settings
                          THEN held ELSE [held EXCEPT ![conv] = first]
       /\ UNCHANGED <<settings, overtaken, budget>>

\* select_relay_for_probe
SelectForProbe(q) ==
    LET s == req[q].read
    IN /\ req[q].pc = "loaded" /\ req[q].probe /\ s.agg # None
       /\ IF ~AllUsable(s)
          THEN Refuse(q) /\ UNCHANGED <<selector, given>>
          ELSE /\ selector' = Ensured(s)
               /\ given' = IF MadeAnew(s) THEN NoTurns ELSE given
               /\ Goes(q, [req[q] EXCEPT !.pc = "trying", !.left = <<Peek(Ensured(s))>>])
       /\ UNCHANGED <<settings, held, overtaken, budget>>

\* A probe notes nothing.
Notes(q, failed) ==
    /\ selector' = IF req[q].probe THEN selector ELSE Noted(req[q].read, failed)
    /\ given' = IF selector' = None THEN NoTurns ELSE given
    /\ UNCHANGED <<settings, held, overtaken, budget>>

\* validate_upstream, after which the other candidates are not tried.
NotSent(q) ==
    /\ req[q].pc = "trying" /\ Head(req[q].left) \notin req[q].read.usable
    /\ Refuse(q)
    /\ UNCHANGED <<settings, selector, given, held, overtaken, budget>>

Sent(q) == req[q].pc = "trying" /\ Head(req[q].left) \in req[q].read.usable

\* A status of 2xx.
Answered(q) ==
    /\ Sent(q)
    /\ Ends(q, "answered")
    /\ Notes(q, FALSE)

\* No connection, no headers in time, or another status.
NotAnswered(q) ==
    /\ Sent(q)
    /\ IF Len(req[q].left) > 1
       THEN Goes(q, [req[q] EXCEPT !.left = Tail(@), !.tried = Append(@, Head(req[q].left))])
       ELSE Ends(q, "failed")
    /\ Notes(q, TRUE)

(***************************************************************************)
(* The Manager.                                                            *)
(***************************************************************************)
Save(s) ==
    /\ s # settings
    /\ budget.saves > 0
    /\ budget' = [budget EXCEPT !.saves = @ - 1]
    /\ settings' = s
    /\ held' = NotHeld
    /\ overtaken' = \E q \in Requests : UnderWay(q)
    /\ UNCHANGED <<selector, req, given>>

RotationNext ==
    \/ \E q \in Requests :
          \/ Starts(q)
          \/ SelectRegular(q) \/ SelectByModel(q) \/ SelectByTurn(q) \/ SelectForProbe(q)
          \/ NotSent(q) \/ Answered(q) \/ NotAnswered(q)
    \/ \E s \in Snapshots : Save(s)

RotationSpec == RotationInit /\ [][RotationNext]_rotation_vars

(***************************************************************************)
(* Properties.                                                             *)
(***************************************************************************)
Occurrences(r, list) == Cardinality({i \in DOMAIN list : list[i] = r})

(* The relays share the turns as configured, whatever requests and probes  *)
(* are interleaved and whatever fails: in every full round each has as     *)
(* many as its weight, and none is ahead of that in a round under way.     *)
TurnsAreFair ==
    selector # None /\ selector.agg.strategy # "failover" =>
        LET round  == IF selector.agg.strategy = "weighted"
                      THEN Schedule(selector.agg) ELSE Members(selector.agg)
        IN \E rounds \in 0 .. MaxRequests : \A r \in Relays :
             /\ given[r] >= rounds * Occurrences(r, round)
             /\ given[r] <= (rounds + 1) * Occurrences(r, round)

Starting(q) == req[q].pc = "loaded" /\ req'[q].pc = "trying"

(* "A conversation keeps its member" (docs/plan/20260527160751519, section *)
(* 2.2): under unchanged settings its requests all begin with the same one.*)
ConversationStays ==
    [][\A q \in Requests :
         /\ Starting(q) /\ ~req[q].probe /\ ByTurn(q) /\ req[q].conv # None
         /\ req[q].read = settings /\ settings.agg.strategy = "conversation"
         /\ held[req[q].conv] # None
         => Head(req'[q].left) = held[req[q].conv]]_rotation_vars

(* It does so unless a request that had read earlier settings was still    *)
(* under way at the save: such a request may replace or clear the selector.*)
ConversationStaysUnlessOvertaken ==
    \A q \in Requests :
        /\ Starting(q) /\ ~req[q].probe /\ ByTurn(q) /\ req[q].conv # None
        /\ req[q].read = settings /\ settings.agg.strategy = "conversation"
        /\ held[req[q].conv] # None /\ ~overtaken
        => Head(req'[q].left) = held[req[q].conv]

(* The selector hands out its turns evenly, and a conversation its own. *)
TurnsAreKept ==
    [][/\ UNCHANGED <<selector, given>> \/ TurnsAreFair'
       /\ ConversationStaysUnlessOvertaken]_rotation_vars

(* The members a request of an aggregate may go to. *)
Candidates(q) ==
    IF ByRoute(q) THEN Range(Eligible(req[q].read, req[q].model))
                  ELSE Range(Members(req[q].read.agg))

(* A request goes to members that serve its model, to none of them twice,  *)
(* and fails only after every one has; it is refused only if one of them   *)
(* cannot be sent anything.  Nothing else ever sees it.                    *)
TriedInTurn ==
    \A q \in Requests :
         LET seen == IF req[q].left = <<>> THEN <<>> ELSE Append(req[q].tried, Head(req[q].left))
         IN UnderWay(q) /\ req'[q] # req[q] /\ req[q].read.agg # None /\ ~req[q].probe =>
              /\ IsInjective(seen) /\ Range(seen) \subseteq Candidates(q)
              /\ req'[q].pc = "failed" => Range(seen) = Candidates(q)
              /\ req'[q].pc = "refused" =>
                    \/ ~AllUsable(req[q].read)
                    \/ ByRoute(q) /\ RouteFails(req[q].read, req[q].model)

(* "After a failure [...] the next member" (docs/plan/20260527160751519,   *)
(* section 2.2): the next request begins with the one after it.            *)
FailureMovesOn ==
    [][\A q \in Requests :
         /\ req[q].pc = "trying" /\ req'[q].pc \in {"trying", "failed"}
         /\ ~req[q].probe /\ ByTurn(q) /\ req[q].read.agg.strategy = "failover"
         /\ req[q].left # req'[q].left /\ ~overtaken
         => MemberAt(selector', selector'.failover)
              = After(Members(selector'.agg), Head(req[q].left))[1]]_rotation_vars

(* Of requests that had the selector to themselves (no other was under way *)
(* with them, and no settings were saved before they had ended), one that  *)
(* has been answered leaves the next to begin with the member that did.    *)
FailureMovesOnIfAlone ==
    \A q \in Requests :
         /\ req[q].pc = "trying" /\ req'[q].pc = "answered"
         /\ ~req[q].probe /\ ByTurn(q) /\ req[q].read.agg.strategy = "failover"
         /\ req[q].alone /\ ~overtaken
         => /\ selector' # None /\ selector'.agg = req[q].read.agg
            /\ MemberAt(selector', selector'.failover) = Head(req[q].left)

(* Failures lead on: within a request to every member, between requests to *)
(* the one that answered.                                                  *)
FailuresLeadOn == [][TriedInTurn /\ FailureMovesOnIfAlone]_rotation_vars

(* "A member that is unavailable does not keep the others from working"    *)
(* (docs/plan/20260527160751519, Task 3).                                  *)
OneBadMemberStopsNobody ==
    [][\A q \in Requests :
         UnderWay(q) /\ req'[q].pc = "refused" /\ req[q].read.agg # None
         => Candidates(q) \cap req[q].read.usable = {}]_rotation_vars
=============================================================================
