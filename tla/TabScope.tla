------------------------------ MODULE TabScope ------------------------------
(***************************************************************************)
(* Which document owns the browse-tab id its snapshots are saved under     *)
(* (lib/browse/tabScope.ts, hooks/useBrowseTabScope.ts).                   *)
(*                                                                         *)
(* The id lives in sessionStorage, which the browser copies when a tab is  *)
(* duplicated.  A document therefore contends for its id on a              *)
(* BroadcastChannel before it opens its snapshots: it posts contend, waits *)
(* one probe, and takes another id when an owner answered occupied or a    *)
(* contender beat it.  An owner that learns too late that its id was taken *)
(* rotates to a new one.                                                   *)
(*                                                                         *)
(* A message reaches the channels that are open when it is posted, one     *)
(* copy each, in any order.  A new id or contender id is one that nothing  *)
(* mentions any more (randomUUID).                                         *)
(***************************************************************************)
EXTENDS Integers, FiniteSets

CONSTANTS
  Docs,        \* documents: live tabs of one origin
  TabIds,      \* browse-tab ids
  Contenders,  \* contender ids, ordered as localeCompare orders them
  NoTab,       \* no id stored
  MaxOpens     \* bound: claims that are started

ASSUME TabAssumption ==
  /\ NoTab \notin TabIds /\ TabIds \subseteq Int /\ Contenders \subseteq Int \ {0}
  /\ MaxOpens \in Nat

VARIABLES
  stored,     \* [Docs -> id or NoTab]: sessionStorage
  phase,      \* [Docs -> closed, probing, claimed, rotating]
  candidate,  \* [Docs -> id or NoTab]: the id contended for or owned
  contender,  \* [Docs -> contender id or 0]: who the document is on its channel
  collision,  \* [Docs -> BOOLEAN]: the probe found another document
  mail,       \* messages posted and not delivered
  beaten,     \* pairs <<c, r>>: c heard r contend during its own probe and stayed
  opens       \* claims started so far

tabVars == <<stored, phase, candidate, contender, collision, mail, beaten, opens>>

Phases == {"closed", "probing", "claimed", "rotating"}
Message == [to : Docs, type : {"contend", "occupied"}, tab : TabIds,
            from : Contenders, requester : Contenders]

TabTypeOK ==
  /\ stored \in [Docs -> TabIds \cup {NoTab}]
  /\ phase \in [Docs -> Phases]
  /\ candidate \in [Docs -> TabIds \cup {NoTab}]
  /\ contender \in [Docs -> Contenders \cup {0}]
  /\ collision \in [Docs -> BOOLEAN]
  /\ mail \subseteq Message
  /\ beaten \subseteq Contenders \X Contenders
  /\ opens \in 0..MaxOpens

Listening == {d \in Docs : phase[d] # "closed"}

UnusedTab(x) ==
  /\ \A d \in Docs : stored[d] # x /\ candidate[d] # x
  /\ \A m \in mail : m.tab # x

\* Ids are only compared, so the least unused one stands for every new one.
FreshTab(x) == UnusedTab(x) /\ \A y \in TabIds : UnusedTab(y) => x <= y

FreshContender(c) ==
  /\ \A d \in Docs : contender[d] # c
  /\ \A m \in mail : m.from # c /\ m.requester # c
  /\ \A p \in beaten : p[1] # c /\ p[2] # c

-----------------------------------------------------------------------------
PostStored(d, type, x, c, r) ==
  {[to |-> e, type |-> type, tab |-> stored[d], from |-> c, requester |-> r] : e \in Listening \ {d}}
Post(d, type, x, c, r) ==
  {[to |-> e, type |-> type, tab |-> x, from |-> c, requester |-> r] : e \in Listening \ {d}}

Undelivered(d) == {m \in mail : m.to # d}
Unbeaten(c)    == {p \in beaten : c \notin {p[1], p[2]}}

\* A new channel, a new contender id, one contend message, one probe.
Contend(d, x) ==
  \E c \in Contenders :
    /\ FreshContender(c)
    /\ phase' = [phase EXCEPT ![d] = "probing"]
    /\ candidate' = [candidate EXCEPT ![d] = x]
    /\ contender' = [contender EXCEPT ![d] = c]
    /\ collision' = [collision EXCEPT ![d] = FALSE]
    /\ mail' = Undelivered(d) \cup Post(d, "contend", x, c, c)
    /\ beaten' = Unbeaten(contender[d])

\* The next id of a document that rotates, on the channel it has.
ContendAgain(d) ==
  \E x \in TabIds :
    /\ FreshTab(x)
    /\ phase' = [phase EXCEPT ![d] = "rotating"]
    /\ candidate' = [candidate EXCEPT ![d] = x]
    /\ collision' = [collision EXCEPT ![d] = FALSE]
    /\ mail' = mail \cup Post(d, "contend", x, contender[d], contender[d])
    /\ UNCHANGED <<contender, beaten>>

\* The browser duplicates a tab: sessionStorage is copied.
Duplicate(d, e) ==
  /\ stored[d] # NoTab /\ stored[e] = NoTab /\ phase[e] = "closed"
  /\ stored' = [stored EXCEPT ![e] = stored[d]]
  /\ UNCHANGED <<phase, candidate, contender, collision, mail, beaten, opens>>

\* acquire: a list mounts or the page is shown again.
Acquire(d) ==
  /\ phase[d] = "closed" /\ opens < MaxOpens
  /\ opens' = opens + 1
  /\ IF stored[d] # NoTab THEN Contend(d, stored[d])
     ELSE \E x \in TabIds : FreshTab(x) /\ Contend(d, x)
  /\ UNCHANGED stored

\* The timer of a probe, which need not outlast a delivery.
ProbeDone(d) == phase[d] \in {"probing", "rotating"}

Claim(d) ==
  /\ ProbeDone(d) /\ ~collision[d]
  /\ phase' = [phase EXCEPT ![d] = "claimed"]
  /\ stored' = [stored EXCEPT ![d] = candidate[d]]
  /\ UNCHANGED <<candidate, contender, collision, mail, beaten, opens>>

YieldSameId(d) ==
  /\ ProbeDone(d) /\ collision[d] /\ phase[d] = "probing"
  /\ Contend(d, candidate[d])
  /\ UNCHANGED <<stored, opens>>

\* A collision before the claim: another id, on another channel.
Yield(d) ==
  /\ ProbeDone(d) /\ collision[d] /\ phase[d] = "probing"
  /\ \E x \in TabIds : FreshTab(x) /\ Contend(d, x)
  /\ UNCHANGED <<stored, opens>>

\* The same while it rotates.
RotateAgain(d) ==
  /\ ProbeDone(d) /\ collision[d] /\ phase[d] = "rotating"
  /\ ContendAgain(d)
  /\ UNCHANGED <<stored, opens>>

\* pagehide or unmount: the channel closes.
Release(d) ==
  /\ phase[d] # "closed"
  /\ phase' = [phase EXCEPT ![d] = "closed"]
  /\ candidate' = [candidate EXCEPT ![d] = NoTab]
  /\ contender' = [contender EXCEPT ![d] = 0]
  /\ collision' = [collision EXCEPT ![d] = FALSE]
  /\ mail' = Undelivered(d)
  /\ beaten' = Unbeaten(contender[d])
  /\ UNCHANGED <<stored, opens>>

-----------------------------------------------------------------------------
(* The listener. *)

Concerns(d, m) == m.tab = candidate[d] /\ m.from # contender[d]

Ignored(d, m) ==
  /\ ~Concerns(d, m) \/ (m.type = "occupied" /\ m.requester # contender[d])
  /\ mail' = mail \ {m}
  /\ UNCHANGED <<phase, candidate, contender, collision, beaten>>

AnswerNothing(d, m) ==
  /\ Concerns(d, m) /\ m.type = "contend" /\ phase[d] = "claimed"
  /\ mail' = mail \ {m}
  /\ UNCHANGED <<phase, candidate, contender, collision, beaten>>

\* An owner answers a contender.
AnswerOccupied(d, m) ==
  /\ Concerns(d, m) /\ m.type = "contend" /\ phase[d] = "claimed"
  /\ mail' = (mail \ {m}) \cup Post(d, "occupied", candidate[d], contender[d], m.from)
  /\ UNCHANGED <<phase, candidate, contender, collision, beaten>>

\* Two contenders: the greater contender id gives way.
Compare(d, m) ==
  /\ Concerns(d, m) /\ m.type = "contend" /\ phase[d] # "claimed"
  /\ collision' = [collision EXCEPT ![d] = @ \/ contender[d] > m.from]
  /\ beaten' = IF contender[d] > m.from THEN beaten ELSE beaten \cup {<<contender[d], m.from>>}
  /\ mail' = mail \ {m}
  /\ UNCHANGED <<phase, candidate, contender>>

\* The answer in time.
HearOccupied(d, m) ==
  /\ Concerns(d, m) /\ m.type = "occupied" /\ m.requester = contender[d] /\ phase[d] # "claimed"
  /\ collision' = [collision EXCEPT ![d] = TRUE]
  /\ mail' = mail \ {m}
  /\ UNCHANGED <<phase, candidate, contender, beaten>>

\* The answer too late: rotateAfterLateCollision.
RotateAfterLateCollision(d, m) ==
  /\ Concerns(d, m) /\ m.type = "occupied" /\ m.requester = contender[d] /\ phase[d] = "claimed"
  /\ \E x \in TabIds :
       /\ FreshTab(x)
       /\ phase' = [phase EXCEPT ![d] = "rotating"]
       /\ candidate' = [candidate EXCEPT ![d] = x]
       /\ collision' = [collision EXCEPT ![d] = FALSE]
       /\ mail' = (mail \ {m}) \cup Post(d, "contend", x, contender[d], contender[d])
  /\ UNCHANGED <<contender, beaten>>

Deliver(m) ==
  /\ \/ Ignored(m.to, m) \/ AnswerOccupied(m.to, m) \/ Compare(m.to, m)
     \/ HearOccupied(m.to, m) \/ RotateAfterLateCollision(m.to, m)
  /\ UNCHANGED <<stored, opens>>

-----------------------------------------------------------------------------
TabInit ==
  /\ stored = [d \in Docs |-> NoTab]
  /\ phase = [d \in Docs |-> "closed"]
  /\ candidate = [d \in Docs |-> NoTab]
  /\ contender = [d \in Docs |-> 0]
  /\ collision = [d \in Docs |-> FALSE]
  /\ mail = {} /\ beaten = {} /\ opens = 0

Protocol ==
  \/ \E d \in Docs : Claim(d) \/ Yield(d) \/ RotateAgain(d)
  \/ \E m \in mail : Deliver(m)

TabNext ==
  \/ \E d, e \in Docs : Duplicate(d, e)
  \/ \E d \in Docs : Acquire(d) \/ Release(d)
  \/ Protocol

TabSpec == TabInit /\ [][TabNext]_tabVars

-----------------------------------------------------------------------------
(* Properties. *)

Owns(d, x) == phase[d] = "claimed" /\ candidate[d] = x

\* e will be told: its contend message has yet to reach d, or d's answer e.
ToldLater(d, e) ==
  \E m \in mail :
    \/ m.to = d /\ m.type = "contend" /\ m.from = contender[e] /\ m.tab = candidate[e]
    \/ m.to = e /\ m.type = "occupied" /\ m.requester = contender[e] /\ m.tab = candidate[e]
       /\ m.from # contender[e]

\* d heard e contend during its own probe, or e heard d, and stayed.
Overlapped(d, e) ==
  \/ <<contender[d], contender[e]>> \in beaten
  \/ <<contender[e], contender[d]>> \in beaten

\* Two documents share an id only until the message that separates them is
\* delivered, however late it is, unless their probes overlapped and the earlier
\* one stayed.
SharedOnlyUntilTold ==
  \A d, e \in Docs : \A x \in TabIds :
    d # e /\ Owns(d, x) /\ Owns(e, x) =>
      ToldLater(d, e) \/ ToldLater(e, d) \/ Overlapped(d, e)

\* Once no tab is opened any more, every document that contends owns an id in the
\* end, and shares it with no document whose probe did not overlap its own.
TabsAtRest ==
  /\ \A d \in Docs : phase[d] \in {"closed", "claimed"}
  /\ \A d, e \in Docs : \A x \in TabIds :
       d # e /\ Owns(d, x) /\ Owns(e, x) => Overlapped(d, e)
EventuallySeparate == []<>TabsAtRest

-----------------------------------------------------------------------------
(* The inductive strengthening of SharedOnlyUntilTold. *)

\* A document is someone on the channel exactly while it listens, and nobody else
\* is; a collision is known only before the claim.
ChannelInv ==
  /\ \A d \in Docs : phase[d] = "closed" <=> contender[d] = 0
  /\ \A d, e \in Docs : d # e /\ contender[d] = contender[e] => contender[d] = 0
  /\ \A d \in Docs : IF phase[d] = "closed" THEN candidate[d] = NoTab ELSE candidate[d] \in TabIds
  /\ \A d \in Docs : collision[d] => phase[d] \in {"probing", "rotating"}

Told(d, e) == ToldLater(d, e) \/ ToldLater(e, d) \/ Overlapped(d, e) \/ collision[d] \/ collision[e]

\* The strengthening of SharedOnlyUntilTold to every document that listens: one
\* of the two knows, will be told, or stayed although it heard the other.
SeparateInv ==
  \A d, e \in Listening : d # e /\ candidate[d] = candidate[e] => Told(d, e)

\* The invariant the proof carries.
TabInv == TabTypeOK /\ ChannelInv /\ SeparateInv
=============================================================================
