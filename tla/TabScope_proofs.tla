-------------------------- MODULE TabScope_proofs --------------------------
(* Proof that documents share a browse-tab id only until they are told.     *)
EXTENDS TabScope, TLAPS

\* A message is posted only to documents.
LEMMA PostType ==
  ASSUME NEW d \in Docs, NEW type \in {"contend", "occupied"}, NEW x \in TabIds,
         NEW c \in Contenders, NEW r \in Contenders
  PROVE  Post(d, type, x, c, r) \subseteq Message
BY DEF Post, Message, Listening

LEMMA InitTab == TabInit => TabInv
BY TabAssumption DEF TabInit, TabInv, TabTypeOK, ChannelInv, SeparateInv, Listening, Phases, Message

\* Contend keeps the types and the channel invariant.
LEMMA ContendType ==
  ASSUME TabTypeOK, NEW d \in Docs, NEW x \in TabIds, Contend(d, x)
  PROVE  /\ phase' \in [Docs -> Phases] /\ candidate' \in [Docs -> TabIds \cup {NoTab}]
         /\ contender' \in [Docs -> Contenders \cup {0}] /\ collision' \in [Docs -> BOOLEAN]
         /\ mail' \subseteq Message /\ beaten' \subseteq Contenders \X Contenders
<1>1. PICK c \in Contenders :
        /\ phase' = [phase EXCEPT ![d] = "probing"]
        /\ candidate' = [candidate EXCEPT ![d] = x]
        /\ contender' = [contender EXCEPT ![d] = c]
        /\ collision' = [collision EXCEPT ![d] = FALSE]
        /\ mail' = Undelivered(d) \cup Post(d, "contend", x, c, c)
        /\ beaten' = Unbeaten(contender[d])
  BY DEF Contend
<1>2. mail' \subseteq Message
  BY <1>1, PostType DEF TabTypeOK, Undelivered
<1>3. beaten' \subseteq Contenders \X Contenders
  BY <1>1 DEF TabTypeOK, Unbeaten
<1> QED BY <1>1, <1>2, <1>3 DEF TabTypeOK, Phases

LEMMA ContendChannel ==
  ASSUME TabTypeOK, ChannelInv, NEW d \in Docs, NEW x \in TabIds, Contend(d, x)
  PROVE  ChannelInv'
BY TabAssumption DEF Contend, ChannelInv, TabTypeOK, FreshContender, Phases

\* What Contend does to the pairs: everyone who listens will hear the newcomer,
\* and nothing that concerns two others is lost.
LEMMA ContendSeparate ==
  ASSUME TabInv, NEW d \in Docs, NEW x \in TabIds, Contend(d, x)
  PROVE  SeparateInv'
<1>1. PICK c \in Contenders :
        /\ phase' = [phase EXCEPT ![d] = "probing"]
        /\ candidate' = [candidate EXCEPT ![d] = x]
        /\ contender' = [contender EXCEPT ![d] = c]
        /\ collision' = [collision EXCEPT ![d] = FALSE]
        /\ mail' = Undelivered(d) \cup Post(d, "contend", x, c, c)
        /\ beaten' = Unbeaten(contender[d])
  BY DEF Contend
<1> SUFFICES ASSUME NEW a \in Docs, NEW b \in Docs, phase'[a] # "closed", phase'[b] # "closed",
                    a # b, candidate'[a] = candidate'[b]
             PROVE  Told(a, b)'
  BY DEF SeparateInv, Listening
<1>2. ASSUME NEW e \in Docs, e # d, phase'[e] # "closed"
      PROVE  ToldLater(e, d)'
  <2> DEFINE m == [to |-> e, type |-> "contend", tab |-> x, from |-> c, requester |-> c]
  <2>1. m \in mail'
    BY <1>1, <1>2 DEF Post, Listening, TabInv, TabTypeOK
  <2>2. m.to = e /\ m.type = "contend" /\ m.from = contender'[d] /\ m.tab = candidate'[d]
    BY <1>1 DEF TabInv, TabTypeOK
  <2> QED BY <2>1, <2>2 DEF ToldLater
<1>3. CASE a = d
  BY <1>2, <1>3 DEF Told
<1>4. CASE b = d
  BY <1>2, <1>4 DEF Told
<1>5. CASE a # d /\ b # d
  <2>1. /\ contender'[a] = contender[a] /\ contender'[b] = contender[b]
        /\ candidate'[a] = candidate[a] /\ candidate'[b] = candidate[b]
        /\ collision'[a] = collision[a] /\ collision'[b] = collision[b]
        /\ phase'[a] = phase[a] /\ phase'[b] = phase[b]
    BY <1>1, <1>5 DEF TabInv, TabTypeOK
  <2>2. Told(a, b)
    BY <2>1 DEF TabInv, SeparateInv, Listening
  <2>3. \A n \in mail : n.to # d => n \in mail'
    BY <1>1 DEF Undelivered
  <2>4. ToldLater(a, b) => ToldLater(a, b)'
    BY <2>1, <2>3, <1>5 DEF ToldLater
  <2>5. ToldLater(b, a) => ToldLater(b, a)'
    BY <2>1, <2>3, <1>5 DEF ToldLater
  <2>6. contender[a] # contender[d] /\ contender[b] # contender[d]
    BY <1>5, <2>1 DEF TabInv, ChannelInv
  <2>7. Overlapped(a, b) => Overlapped(a, b)'
    BY <1>1, <2>1, <2>6 DEF Overlapped, Unbeaten
  <2> QED BY <2>1, <2>2, <2>4, <2>5, <2>7 DEF Told
<1> QED BY <1>3, <1>4, <1>5

\* What tells two documents apart stays as long as neither changes its id or its
\* channel and what is addressed to them is not lost.
LEMMA ToldStays ==
  ASSUME NEW a \in Docs, NEW b \in Docs, Told(a, b),
         contender'[a] = contender[a], contender'[b] = contender[b],
         candidate'[a] = candidate[a], candidate'[b] = candidate[b],
         collision[a] => collision'[a], collision[b] => collision'[b],
         Overlapped(a, b) => Overlapped(a, b)',
         \A n \in mail : n.to \in {a, b} => n \in mail'
  PROVE  Told(a, b)'
<1>1. ToldLater(a, b) => ToldLater(a, b)'
  BY DEF ToldLater
<1>2. ToldLater(b, a) => ToldLater(b, a)'
  BY DEF ToldLater
<1> QED BY <1>1, <1>2 DEF Told

\* A document that takes an unused id shares it with nobody.
LEMMA FreshSeparate ==
  ASSUME TabInv, NEW d \in Docs, NEW x \in TabIds, FreshTab(x),
         candidate' = [candidate EXCEPT ![d] = x], contender' = contender, beaten' = beaten,
         \A e \in Docs : e # d => phase'[e] = phase[e] /\ collision'[e] = collision[e],
         \A n \in mail : n.to # d => n \in mail'
  PROVE  SeparateInv'
<1> SUFFICES ASSUME NEW a \in Docs, NEW b \in Docs, phase'[a] # "closed", phase'[b] # "closed",
                    a # b, candidate'[a] = candidate'[b]
             PROVE  Told(a, b)'
  BY DEF SeparateInv, Listening
<1>1. a # d /\ b # d
  BY DEF FreshTab, UnusedTab, TabInv, TabTypeOK
<1>2. Told(a, b)
  BY <1>1 DEF TabInv, TabTypeOK, SeparateInv, Listening
<1>3. Overlapped(a, b) => Overlapped(a, b)'
  BY DEF Overlapped
<1>4. candidate'[a] = candidate[a] /\ candidate'[b] = candidate[b]
  BY <1>1 DEF TabInv, TabTypeOK
<1> QED BY <1>1, <1>2, <1>3, <1>4, ToldStays

LEMMA DuplicateTab ==
  ASSUME TabInv, NEW d \in Docs, NEW e \in Docs, Duplicate(d, e)
  PROVE  TabInv'
<1>1. TabTypeOK'
  BY DEF Duplicate, TabInv, TabTypeOK
<1>2. ChannelInv'
  BY DEF Duplicate, TabInv, ChannelInv
<1>3. SeparateInv'
  BY DEF Duplicate, TabInv, SeparateInv, Listening, Told, ToldLater, Overlapped
<1> QED BY <1>1, <1>2, <1>3 DEF TabInv

LEMMA AcquireTab ==
  ASSUME TabInv, NEW d \in Docs, Acquire(d)
  PROVE  TabInv'
<1>1. PICK x \in TabIds : Contend(d, x)
  BY DEF Acquire, TabInv, TabTypeOK
<1>2. TabTypeOK'
  BY <1>1, ContendType, TabAssumption DEF Acquire, TabInv, TabTypeOK
<1>3. ChannelInv'
  BY <1>1, ContendChannel DEF TabInv
<1>4. SeparateInv'
  BY <1>1, ContendSeparate
<1> QED BY <1>2, <1>3, <1>4 DEF TabInv

LEMMA YieldTab ==
  ASSUME TabInv, NEW d \in Docs, Yield(d)
  PROVE  TabInv'
<1>1. PICK x \in TabIds : Contend(d, x)
  BY DEF Yield
<1>2. TabTypeOK'
  BY <1>1, ContendType DEF Yield, TabInv, TabTypeOK
<1>3. ChannelInv'
  BY <1>1, ContendChannel DEF TabInv
<1>4. SeparateInv'
  BY <1>1, ContendSeparate
<1> QED BY <1>2, <1>3, <1>4 DEF TabInv

LEMMA ClaimTab ==
  ASSUME TabInv, NEW d \in Docs, Claim(d)
  PROVE  TabInv'
<1>1. TabTypeOK'
  BY DEF Claim, TabInv, TabTypeOK, Phases
<1>2. ChannelInv'
  BY DEF Claim, ProbeDone, TabInv, TabTypeOK, ChannelInv
<1>3. SeparateInv'
  <2> SUFFICES ASSUME NEW a \in Docs, NEW b \in Docs, phase'[a] # "closed", phase'[b] # "closed",
                      a # b, candidate'[a] = candidate'[b]
               PROVE  Told(a, b)'
    BY DEF SeparateInv, Listening
  <2>1. Told(a, b)
    BY DEF Claim, ProbeDone, TabInv, TabTypeOK, SeparateInv, Listening
  <2> QED BY <2>1, ToldStays DEF Claim, Overlapped
<1> QED BY <1>1, <1>2, <1>3 DEF TabInv

LEMMA RotateAgainTab ==
  ASSUME TabInv, NEW d \in Docs, RotateAgain(d)
  PROVE  TabInv'
<1>1. PICK x \in TabIds :
        /\ FreshTab(x)
        /\ phase' = [phase EXCEPT ![d] = "rotating"]
        /\ candidate' = [candidate EXCEPT ![d] = x]
        /\ collision' = [collision EXCEPT ![d] = FALSE]
        /\ mail' = mail \cup Post(d, "contend", x, contender[d], contender[d])
        /\ UNCHANGED <<contender, beaten, stored, opens>>
  BY DEF RotateAgain, ContendAgain
<1>2. contender[d] \in Contenders /\ phase[d] # "closed"
  BY DEF RotateAgain, TabInv, TabTypeOK, ChannelInv
<1>3. mail' \subseteq Message
  BY <1>1, <1>2, PostType DEF TabInv, TabTypeOK
<1>4. TabTypeOK'
  BY <1>1, <1>3 DEF TabInv, TabTypeOK, Phases
<1>5. ChannelInv'
  BY <1>1, <1>2 DEF TabInv, TabTypeOK, ChannelInv
<1>6. SeparateInv'
  BY <1>1, FreshSeparate DEF TabInv, TabTypeOK
<1> QED BY <1>4, <1>5, <1>6 DEF TabInv

LEMMA ReleaseTab ==
  ASSUME TabInv, NEW d \in Docs, Release(d)
  PROVE  TabInv'
<1>1. TabTypeOK'
  BY DEF Release, TabInv, TabTypeOK, Phases, Undelivered, Unbeaten
<1>2. ChannelInv'
  BY DEF Release, TabInv, TabTypeOK, ChannelInv
<1>3. SeparateInv'
  <2> SUFFICES ASSUME NEW a \in Docs, NEW b \in Docs, phase'[a] # "closed", phase'[b] # "closed",
                      a # b, candidate'[a] = candidate'[b]
               PROVE  Told(a, b)'
    BY DEF SeparateInv, Listening
  <2>1. a # d /\ b # d
    BY DEF Release, TabInv, TabTypeOK
  <2>2. /\ contender'[a] = contender[a] /\ contender'[b] = contender[b]
        /\ candidate'[a] = candidate[a] /\ candidate'[b] = candidate[b]
        /\ collision'[a] = collision[a] /\ collision'[b] = collision[b]
        /\ phase'[a] = phase[a] /\ phase'[b] = phase[b]
    BY <2>1 DEF Release, TabInv, TabTypeOK
  <2>3. Told(a, b)
    BY <2>2 DEF TabInv, SeparateInv, Listening
  <2>4. contender[a] # contender[d] /\ contender[b] # contender[d]
    BY <2>1, <2>2 DEF TabInv, ChannelInv
  <2>5. Overlapped(a, b) => Overlapped(a, b)'
    BY <2>2, <2>4 DEF Overlapped, Unbeaten, Release
  <2>6. \A n \in mail : n.to \in {a, b} => n \in mail'
    BY <2>1 DEF Release, Undelivered
  <2> QED BY <2>2, <2>3, <2>5, <2>6, ToldStays
<1> QED BY <1>1, <1>2, <1>3 DEF TabInv

\* A pair that the delivered message does not concern is told as before.
LEMMA OthersTold ==
  ASSUME NEW a \in Docs, NEW b \in Docs, NEW m, Told(a, b),
         contender' = contender, candidate' = candidate,
         \A e \in Docs : collision[e] => collision'[e],
         beaten \subseteq beaten', mail \ {m} \subseteq mail',
         ~ \/ m.to = a /\ m.type = "contend" /\ m.from = contender[b] /\ m.tab = candidate[b]
           \/ m.to = b /\ m.type = "contend" /\ m.from = contender[a] /\ m.tab = candidate[a]
           \/ m.to = b /\ m.type = "occupied" /\ m.requester = contender[b] /\ m.tab = candidate[b]
              /\ m.from # contender[b]
           \/ m.to = a /\ m.type = "occupied" /\ m.requester = contender[a] /\ m.tab = candidate[a]
              /\ m.from # contender[a]
  PROVE  Told(a, b)'
<1>1. ToldLater(a, b) => ToldLater(a, b)'
  BY DEF ToldLater
<1>2. ToldLater(b, a) => ToldLater(b, a)'
  BY DEF ToldLater
<1>3. Overlapped(a, b) => Overlapped(a, b)'
  BY DEF Overlapped
<1> QED BY <1>1, <1>2, <1>3 DEF Told

\* The delivery of a message that separates d from e tells d, tells e, or is the
\* comparison that d survives.
LEMMA DeliverTells ==
  ASSUME TabInv, NEW m \in mail, NEW d \in Docs, NEW e \in Docs, d # e, m.to = d,
         phase[d] # "closed", phase[e] # "closed", candidate[d] = candidate[e],
         \/ m.type = "contend" /\ m.from = contender[e] /\ m.tab = candidate[e]
         \/ m.type = "occupied" /\ m.requester = contender[d] /\ m.tab = candidate[d]
            /\ m.from # contender[d],
         AnswerOccupied(d, m) \/ Compare(d, m) \/ HearOccupied(d, m) \/ Ignored(d, m)
  PROVE  Told(d, e)' /\ Told(e, d)'
<1>1. contender[d] # contender[e] /\ contender[e] \in Contenders /\ contender[d] \in Contenders
  BY DEF TabInv, TabTypeOK, ChannelInv
<1>2. Concerns(d, m)
  BY <1>1 DEF Concerns
<1>3. CASE AnswerOccupied(d, m)
  <2> DEFINE n == [to |-> e, type |-> "occupied", tab |-> candidate[d], from |-> contender[d],
                   requester |-> m.from]
  <2>1. n \in mail'
    BY <1>3 DEF AnswerOccupied, Post, Listening
  <2>2. m.from = contender[e]
    BY <1>3 DEF AnswerOccupied
  <2>3. n.to = e /\ n.type = "occupied" /\ n.requester = contender'[e] /\ n.tab = candidate'[e]
        /\ n.from # contender'[e]
    BY <1>1, <1>3, <2>2 DEF AnswerOccupied
  <2>4. ToldLater(d, e)'
    BY <2>1, <2>3 DEF ToldLater
  <2> QED BY <2>4 DEF Told
<1>4. CASE Compare(d, m)
  <2>1. m.from = contender[e] /\ contender' = contender
    BY <1>4 DEF Compare
  <2>2. CASE contender[d] > m.from
    <3>1. collision'[d]
      BY <1>4, <2>2 DEF Compare, TabInv, TabTypeOK
    <3> QED BY <3>1 DEF Told
  <2>3. CASE ~(contender[d] > m.from)
    <3>1. <<contender'[d], contender'[e]>> \in beaten'
      BY <1>4, <2>1, <2>3 DEF Compare
    <3>2. Overlapped(d, e)' /\ Overlapped(e, d)'
      BY <3>1 DEF Overlapped
    <3> QED BY <3>2 DEF Told
  <2> QED BY <2>2, <2>3
<1>5. CASE HearOccupied(d, m)
  <2>1. collision'[d]
    BY <1>5 DEF HearOccupied, TabInv, TabTypeOK
  <2> QED BY <2>1 DEF Told
<1>6. ~Ignored(d, m)
  BY <1>2 DEF Ignored
<1> QED BY <1>3, <1>4, <1>5, <1>6

\* A delivery that leaves every id alone.
LEMMA DeliverSeparate ==
  ASSUME TabInv, NEW m \in mail,
         Ignored(m.to, m) \/ AnswerOccupied(m.to, m) \/ Compare(m.to, m) \/ HearOccupied(m.to, m)
  PROVE  SeparateInv'
<1> SUFFICES ASSUME NEW a \in Docs, NEW b \in Docs, phase'[a] # "closed", phase'[b] # "closed",
                    a # b, candidate'[a] = candidate'[b]
             PROVE  Told(a, b)'
  BY DEF SeparateInv, Listening
<1>1. /\ contender' = contender /\ candidate' = candidate /\ phase' = phase
      /\ beaten \subseteq beaten' /\ mail \ {m} \subseteq mail'
  BY DEF Ignored, AnswerOccupied, Compare, HearOccupied
<1>2. \A e \in Docs : collision[e] => collision'[e]
  BY DEF Ignored, AnswerOccupied, Compare, HearOccupied, TabInv, TabTypeOK
<1>3. Told(a, b)
  BY <1>1 DEF TabInv, SeparateInv, Listening
<1>4. CASE m.to = a /\ \/ m.type = "contend" /\ m.from = contender[b] /\ m.tab = candidate[b]
                       \/ m.type = "occupied" /\ m.requester = contender[a]
                          /\ m.tab = candidate[a] /\ m.from # contender[a]
  BY <1>1, <1>4, DeliverTells
<1>5. CASE m.to = b /\ \/ m.type = "contend" /\ m.from = contender[a] /\ m.tab = candidate[a]
                       \/ m.type = "occupied" /\ m.requester = contender[b]
                          /\ m.tab = candidate[b] /\ m.from # contender[b]
  BY <1>1, <1>5, DeliverTells
<1> QED BY <1>1, <1>2, <1>3, <1>4, <1>5, OthersTold

LEMMA DeliverTab ==
  ASSUME TabInv, NEW m \in mail, Deliver(m)
  PROVE  TabInv'
<1> DEFINE d == m.to
<1>1. m \in Message /\ d \in Docs
  BY DEF TabInv, TabTypeOK, Message
<1>2. CASE Ignored(d, m)
  <2>1. TabTypeOK'
    BY <1>2 DEF Deliver, Ignored, TabInv, TabTypeOK
  <2>2. ChannelInv'
    BY <1>2 DEF Ignored, TabInv, ChannelInv
  <2> QED BY <1>2, <2>1, <2>2, DeliverSeparate DEF TabInv
<1>3. CASE AnswerOccupied(d, m)
  <2>1. candidate[d] \in TabIds /\ contender[d] \in Contenders /\ m.from \in Contenders
    BY <1>1, <1>3 DEF AnswerOccupied, TabInv, TabTypeOK, ChannelInv, Message
  <2>2. mail' \subseteq Message
    BY <1>1, <1>3, <2>1, PostType DEF AnswerOccupied, TabInv, TabTypeOK
  <2>3. TabTypeOK'
    BY <1>3, <2>2 DEF Deliver, AnswerOccupied, TabInv, TabTypeOK
  <2>4. ChannelInv'
    BY <1>3 DEF AnswerOccupied, TabInv, ChannelInv
  <2> QED BY <1>3, <2>3, <2>4, DeliverSeparate DEF TabInv
<1>4. CASE Compare(d, m)
  <2>1. m.tab \in TabIds /\ m.from \in Contenders
    BY <1>1 DEF Message
  <2>2. phase[d] \in {"probing", "rotating"} /\ contender[d] \in Contenders
    BY <1>1, <1>4, <2>1, TabAssumption
       DEF Compare, Concerns, TabInv, TabTypeOK, ChannelInv, Phases
  <2>3. TabTypeOK'
    BY <1>1, <1>4, <2>1, <2>2 DEF Deliver, Compare, TabInv, TabTypeOK
  <2>4. ChannelInv'
    BY <1>1, <1>4, <2>2 DEF Compare, TabInv, TabTypeOK, ChannelInv
  <2> QED BY <1>4, <2>3, <2>4, DeliverSeparate DEF TabInv
<1>5. CASE HearOccupied(d, m)
  <2>1. m.requester \in Contenders
    BY <1>1 DEF Message
  <2>2. phase[d] \in {"probing", "rotating"}
    BY <1>1, <1>5, <2>1, TabAssumption DEF HearOccupied, TabInv, TabTypeOK, ChannelInv, Phases
  <2>3. TabTypeOK'
    BY <1>1, <1>5 DEF Deliver, HearOccupied, TabInv, TabTypeOK
  <2>4. ChannelInv'
    BY <1>1, <1>5, <2>2 DEF HearOccupied, TabInv, TabTypeOK, ChannelInv
  <2> QED BY <1>5, <2>3, <2>4, DeliverSeparate DEF TabInv
<1>6. CASE RotateAfterLateCollision(d, m)
  <2>1. PICK x \in TabIds :
          /\ FreshTab(x)
          /\ phase' = [phase EXCEPT ![d] = "rotating"]
          /\ candidate' = [candidate EXCEPT ![d] = x]
          /\ collision' = [collision EXCEPT ![d] = FALSE]
          /\ mail' = (mail \ {m}) \cup Post(d, "contend", x, contender[d], contender[d])
          /\ UNCHANGED <<contender, beaten>>
    BY <1>6 DEF RotateAfterLateCollision
  <2>2. phase[d] = "claimed" /\ contender[d] \in Contenders
    BY <1>1, <1>6 DEF RotateAfterLateCollision, TabInv, TabTypeOK, ChannelInv
  <2>3. mail' \subseteq Message
    BY <1>1, <2>1, <2>2, PostType DEF TabInv, TabTypeOK
  <2>4. TabTypeOK'
    BY <1>1, <2>1, <2>3 DEF Deliver, TabInv, TabTypeOK, Phases
  <2>5. ChannelInv'
    BY <1>1, <2>1, <2>2 DEF TabInv, TabTypeOK, ChannelInv
  <2>6. SeparateInv'
    BY <1>1, <2>1, FreshSeparate DEF TabInv, TabTypeOK
  <2> QED BY <2>4, <2>5, <2>6 DEF TabInv
<1> QED BY <1>2, <1>3, <1>4, <1>5, <1>6 DEF Deliver

LEMMA NextTab == TabInv /\ [TabNext]_tabVars => TabInv'
<1> SUFFICES ASSUME TabInv, [TabNext]_tabVars
             PROVE  TabInv'
  OBVIOUS
<1>1. ASSUME NEW d \in Docs, NEW e \in Docs, Duplicate(d, e)
      PROVE  TabInv'
  BY <1>1, DuplicateTab
<1>2. ASSUME NEW d \in Docs, Acquire(d) \/ Release(d) \/ Claim(d) \/ Yield(d) \/ RotateAgain(d)
      PROVE  TabInv'
  BY <1>2, AcquireTab, ReleaseTab, ClaimTab, YieldTab, RotateAgainTab
<1>3. ASSUME NEW m \in mail, Deliver(m)
      PROVE  TabInv'
  BY <1>3, DeliverTab
<1>4. CASE UNCHANGED tabVars
  BY <1>4 DEF tabVars, TabInv, TabTypeOK, ChannelInv, SeparateInv, Listening, Told, ToldLater, Overlapped
<1> QED BY <1>1, <1>2, <1>3, <1>4 DEF TabNext, Protocol

\* An owner knows of no collision, so what separates two owners is a message on
\* its way or an overlap.
LEMMA TabInvSeparates == TabInv => SharedOnlyUntilTold
<1> SUFFICES ASSUME TabInv, NEW d \in Docs, NEW e \in Docs, NEW x \in TabIds,
                    d # e, Owns(d, x), Owns(e, x)
             PROVE  ToldLater(d, e) \/ ToldLater(e, d) \/ Overlapped(d, e)
  BY DEF SharedOnlyUntilTold
<1>1. ~collision[d] /\ ~collision[e]
  BY DEF Owns, TabInv, ChannelInv
<1>2. Told(d, e)
  BY DEF Owns, TabInv, SeparateInv, Listening
<1> QED BY <1>1, <1>2 DEF Told

\* The invariant of the protocol, types included, for every number of tabs, ids
\* and messages on their way.
THEOREM TabsCorrect == TabSpec => []TabInv
<1>1. TabInit => TabInv
  BY InitTab
<1>2. TabInv /\ [TabNext]_tabVars => TabInv'
  BY NextTab
<1> QED BY <1>1, <1>2, PTL DEF TabSpec

\* For every number of tabs, however late messages are and however often tabs are
\* duplicated, hidden and shown (lib/browse/tabScope.ts): two documents share a
\* browse-tab id only until the message that separates them is delivered, unless
\* their probes overlapped.
THEOREM TabsSeparate == TabSpec => []SharedOnlyUntilTold
<1>1. TabInv => SharedOnlyUntilTold
  BY TabInvSeparates
<1> QED BY <1>1, TabsCorrect, PTL
=============================================================================
