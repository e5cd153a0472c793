-------------------------- MODULE GateCallbackProofs --------------------------
(***************************************************************************)
(* Theorems about GateCallback, for any sets of reviewers, executions and  *)
(* decisions and any number of crashes.                                    *)
(***************************************************************************)
EXTENDS GateCallback, TLAPS

LEMMA CallbackType ==
  /\ NoCallback \in Callback
  /\ \A r \in Callback : NoClaim(r) \in Callback
BY DEF Callback, NoCallback, NoClaim, Status, Decided

\* One step keeps every variable in its type.
LEMMA TypeStep == TypeOK /\ [Next]_vars => TypeOK'
<1> SUFFICES ASSUME TypeOK, [Next]_vars PROVE TypeOK'
  OBVIOUS
<1> USE CallbackType, BoundAssumption DEF TypeOK, Actors
<1>1. ASSUME NEW e \in Execs, ArmRead(e) PROVE TypeOK'
  BY <1>1 DEF ArmRead
<1>2. ASSUME NEW e \in Execs, ArmWrite(e) PROVE TypeOK'
  <2>1. [NoCallback EXCEPT !.status = "WAITING", !.token = e] \in Callback
    BY DEF Callback, NoCallback, Status
  <2>2. QED
    BY <1>2, <2>1 DEF ArmWrite, Wins, Loses
<1>3. ASSUME NEW e \in Execs, TokenDies(e) PROVE TypeOK'
  BY <1>3 DEF TokenDies
<1>4. CASE ClaimGoesStale
  BY <1>4 DEF ClaimGoesStale, Callback
<1>5. ASSUME NEW d \in Deciders, Read(d) PROVE TypeOK'
  BY <1>5 DEF Read, Goto, Callback
<1>6. ASSUME NEW d \in Deciders, Claim(d) PROVE TypeOK'
  <2>1. [seen[d] EXCEPT !.status = "DECIDING", !.claimant = d, !.fresh = TRUE] \in Callback
    BY DEF Callback, Status
  <2>2. QED
    BY <1>6, <2>1 DEF Claim, Wins, Loses, Leave, Goto
<1>7. ASSUME NEW d \in Deciders, Apply(d) PROVE TypeOK'
  BY <1>7 DEF Apply, Store, Recording, Goto
<1>8. ASSUME NEW d \in Deciders, ApplyRaises(d) PROVE TypeOK'
  BY <1>8 DEF ApplyRaises, Store, Recording, Goto
<1>9. ASSUME NEW d \in Deciders, GiveBack(d) PROVE TypeOK'
  <2>1. [seen[d] EXCEPT !.status = "WAITING"] \in Callback
    BY DEF Callback, Status
  <2>2. QED
    BY <1>9, <2>1 DEF GiveBack, Wins, Loses, Leave, Goto
<1>10. ASSUME NEW d \in Deciders, Deliver(d) PROVE TypeOK'
  BY <1>10 DEF Deliver, Goto
<1>11. ASSUME NEW d \in Deciders, SendFails(d) PROVE TypeOK'
  BY <1>11 DEF SendFails, Goto
<1>12. ASSUME NEW d \in Deciders, Finalize(d) PROVE TypeOK'
  <2>1. [seen[d] EXCEPT
           !.status = IF pc[d] = "sent" THEN "RESUMED" ELSE "DECIDED_LOCALLY",
           !.output = out[d]] \in Callback
    BY DEF Callback, Status, Decided
  <2>2. QED
    BY <1>12, <2>1 DEF Finalize, Wins, Loses, Leave, Goto
<1>13. ASSUME NEW d \in Deciders, Crash(d) PROVE TypeOK'
  BY <1>13 DEF Crash, Leave, Goto
<1>14. CASE UNCHANGED vars
  BY <1>14 DEF vars
<1>15. QED
  BY <1>1, <1>2, <1>3, <1>4, <1>5, <1>6, <1>7, <1>8, <1>9, <1>10, <1>11, <1>12,
     <1>13, <1>14 DEF Next, Step

\* The slot, the requests and the executions stay within their types.
THEOREM TypeCorrect == Spec => []TypeOK
<1>1. Init => TypeOK
  BY CallbackType, BoundAssumption DEF Init, TypeOK
<1>2. QED
  BY <1>1, TypeStep, PTL DEF Spec
-----------------------------------------------------------------------------
(***************************************************************************)
(* A gate that records.  The requests in flight carry the output from the  *)
(* ledger (or from a decided slot) to the execution and to the slot.       *)
(***************************************************************************)
RecordedInv ==
  Recording =>
    /\ Recorded
    /\ \A d \in Deciders : pc[d] \in {"sending", "sent", "unsent"} => out[d] \in ledger

LEMMA GateIsFixed == [Next]_vars => gate' = gate /\ (Recording' <=> Recording)
BY DEF Next, vars, Step, ArmRead, ArmWrite, TokenDies, ClaimGoesStale, Read, Claim,
       Apply, ApplyRaises, GiveBack, Deliver, SendFails, Finalize, Crash, Recording

LEMMA RecordedStep == TypeOK /\ RecordedInv /\ [Next]_vars => RecordedInv'
<1> SUFFICES ASSUME TypeOK, RecordedInv, [Next]_vars, Recording PROVE RecordedInv'
  BY GateIsFixed DEF RecordedInv
<1> USE DEF RecordedInv, Recorded, TypeOK, Decided
<1>1. ASSUME NEW e \in Execs, ArmRead(e) PROVE RecordedInv'
  BY <1>1 DEF ArmRead
<1>2. ASSUME NEW e \in Execs, ArmWrite(e) PROVE RecordedInv'
  BY <1>2 DEF ArmWrite, Wins, Loses, NoCallback
<1>3. ASSUME NEW e \in Execs, TokenDies(e) PROVE RecordedInv'
  BY <1>3 DEF TokenDies
<1>4. CASE ClaimGoesStale
  BY <1>4 DEF ClaimGoesStale, Callback
<1>5. ASSUME NEW d \in Deciders, Read(d) PROVE RecordedInv'
  BY <1>5 DEF Read, Goto
<1>6. ASSUME NEW d \in Deciders, Claim(d) PROVE RecordedInv'
  <2>1. cb' = cb \/ cb'.status = "DECIDING"
    BY <1>6 DEF Claim, Wins, Loses, Callback
  <2>2. QED
    BY <1>6, <2>1 DEF Claim, Leave, Goto
<1>7. ASSUME NEW d \in Deciders, Apply(d) PROVE RecordedInv'
  BY <1>7 DEF Apply, Store, Goto
<1>8. ASSUME NEW d \in Deciders, ApplyRaises(d) PROVE RecordedInv'
  BY <1>8 DEF ApplyRaises, Store, Goto
<1>9. ASSUME NEW d \in Deciders, GiveBack(d) PROVE RecordedInv'
  <2>1. cb' = cb \/ cb'.status = "WAITING"
    BY <1>9 DEF GiveBack, Wins, Loses, NoClaim, Callback
  <2>2. QED
    BY <1>9, <2>1 DEF GiveBack, Leave, Goto
<1>10. ASSUME NEW d \in Deciders, Deliver(d) PROVE RecordedInv'
  BY <1>10 DEF Deliver, Goto
<1>11. ASSUME NEW d \in Deciders, SendFails(d) PROVE RecordedInv'
  BY <1>11 DEF SendFails, Goto
<1>12. ASSUME NEW d \in Deciders, Finalize(d) PROVE RecordedInv'
  <2>1. CASE Loses(d)
    BY <1>12, <2>1 DEF Finalize, Loses, Leave, Goto
  <2>2. CASE ~Loses(d)
    <3>1. cb'.output = out[d]
      BY <1>12, <2>2 DEF Finalize, Wins, NoClaim, Callback
    <3>2. out[d] \in ledger'
      BY <1>12 DEF Finalize
    <3>3. QED
      BY <1>12, <3>1, <3>2 DEF Finalize, Leave, Goto
  <2>3. QED
    BY <2>1, <2>2
<1>13. ASSUME NEW d \in Deciders, Crash(d) PROVE RecordedInv'
  BY <1>13 DEF Crash, Leave, Goto
<1>14. CASE UNCHANGED vars
  BY <1>14 DEF vars
<1>15. QED
  BY <1>1, <1>2, <1>3, <1>4, <1>5, <1>6, <1>7, <1>8, <1>9, <1>10, <1>11, <1>12,
     <1>13, <1>14 DEF Next, Step

LEMMA RecordedInvariant == Spec => []RecordedInv
<1>1. Init => RecordedInv
  BY DEF Init, RecordedInv, Recorded, NoCallback, Decided
<1>2. QED
  BY <1>1, RecordedStep, TypeCorrect, PTL DEF Spec
-----------------------------------------------------------------------------
(***************************************************************************)
(* One execution at the gate so far.  A live claim is the slot's, is       *)
(* fresh, and its holder is the only actor that knows the current version; *)
(* and the slot holds the execution's token whatever the requests write.   *)
(***************************************************************************)
SlotInv ==
  /\ cb.status # "ABSENT" => \E e \in Execs : exec[e] \notin {"running", "arming"}
  /\ \A e \in Execs : exec[e] = "arming" => cb.status = "ABSENT"
  /\ \A e \in Execs : exec[e] = "waiting" => cb.token = e
  /\ \A d \in Deciders :
       pc[d] # "idle" /\ (d \in current \/ HoldsClaim(d)) => seen[d].token = cb.token
  /\ \A d \in Deciders : pc[d] # "idle" => cb.status # "ABSENT"
  /\ cb.status = "DECIDING" => cb.claimant \in Deciders
  /\ \A d \in Deciders :
       HoldsClaim(d) => /\ cb.status = "DECIDING"
                        /\ cb.claimant = d
                        /\ cb.fresh
                        /\ current = {d}

ClaimInv == ArmedOnce => SlotInv

\* Executions never leave and come back: no step makes ArmedOnce true again.
LEMMA ArmedOnceBefore == TypeOK /\ [Next]_vars /\ ArmedOnce' => ArmedOnce
<1>1. TypeOK /\ [Next]_vars
        => \A e \in Execs : exec[e] # "running" => exec'[e] # "running"
  BY DEF TypeOK, Next, vars, Step, ArmRead, ArmWrite, TokenDies, ClaimGoesStale, Read,
         Claim, Apply, ApplyRaises, GiveBack, Deliver, SendFails, Finalize, Crash
<1>2. QED
  BY <1>1 DEF ArmedOnce

LEMMA ClaimStep == TypeOK /\ ClaimInv /\ [Next]_vars => ClaimInv'
<1> SUFFICES ASSUME TypeOK, SlotInv, ArmedOnce, [Next]_vars, ArmedOnce' PROVE SlotInv'
  BY ArmedOnceBefore DEF ClaimInv
<1> USE ClaimantAssumption DEF SlotInv, TypeOK, HoldsClaim, Decided
<1>1. ASSUME NEW e \in Execs, ArmRead(e) PROVE SlotInv'
  <2>1. \A f \in Execs : f # e => exec[f] = "running"
    BY <1>1 DEF ArmRead, ArmedOnce
  <2>2. cb.status = "ABSENT" /\ \A d \in Deciders : pc[d] = "idle"
    BY <1>1, <2>1 DEF ArmRead
  <2>3. QED
    BY <1>1, <2>1, <2>2, ActorsAssumption DEF ArmRead
<1>2. ASSUME NEW e \in Execs, ArmWrite(e) PROVE SlotInv'
  <2>1. \A f \in Execs : f # e => exec[f] = "running"
    BY <1>2 DEF ArmWrite, ArmedOnce
  <2>2. \A d \in Deciders : pc[d] = "idle"
    BY <1>2 DEF ArmWrite
  <2>3. CASE Loses(e)
    BY <1>2, <2>1, <2>2, <2>3 DEF ArmWrite, Wins, Loses
  <2>4. CASE ~Loses(e)
    <3>1. /\ cb'.status = "WAITING" /\ cb'.token = e /\ current' = {e}
          /\ exec' = [exec EXCEPT ![e] = "waiting"] /\ UNCHANGED <<pc, seen>>
      BY <1>2, <2>4 DEF ArmWrite, Wins, NoCallback
    <3>2. \A d \in Deciders : d \notin current'
      BY <3>1, ActorsAssumption
    <3>3. QED
      BY <2>1, <2>2, <3>1, <3>2
  <2>5. QED
    BY <2>3, <2>4
<1>3. ASSUME NEW e \in Execs, TokenDies(e) PROVE SlotInv'
  BY <1>3 DEF TokenDies
<1>4. CASE ClaimGoesStale
  BY <1>4 DEF ClaimGoesStale, Callback
<1>5. ASSUME NEW d \in Deciders, Read(d) PROVE SlotInv'
  BY <1>5 DEF Read, InProgress, Goto
<1>6. ASSUME NEW d \in Deciders, Claim(d) PROVE SlotInv'
  <2>1. CASE Loses(d)
    BY <1>6, <2>1 DEF Claim, Wins, Loses, Leave, Goto
  <2>2. CASE ~Loses(d)
    <3>1. /\ d \in current
          /\ current' = {d}
          /\ cb'.status = "DECIDING" /\ cb'.claimant = d /\ cb'.fresh
          /\ cb'.token = seen[d].token /\ seen[d].token = cb.token
          /\ pc[d] = "read" /\ pc' = [pc EXCEPT ![d] = "claimed"]
          /\ UNCHANGED <<seen, exec>>
      <4>1. /\ d \in current /\ current' = {d} /\ pc[d] = "read"
            /\ cb' = [seen[d] EXCEPT !.status = "DECIDING", !.claimant = d, !.fresh = TRUE]
            /\ pc' = [pc EXCEPT ![d] = "claimed"]
            /\ UNCHANGED <<seen, exec>>
        BY <1>6, <2>2 DEF Claim, Wins, Goto
      <4>2. seen[d] \in Callback /\ seen[d].token = cb.token
        BY <4>1
      <4>3. QED
        BY <4>1, <4>2 DEF Callback
    <3>2. ASSUME NEW c \in Deciders, HoldsClaim(c) PROVE FALSE
      <4>1. current = {c}
        BY <3>2
      <4>2. c = d
        BY <3>1, <4>1
      <4>3. QED
        BY <3>1, <3>2, <4>2
    <3>3. \A c \in Deciders : HoldsClaim(c)' => c = d
      BY <3>1, <3>2
    <3>4. cb.status # "ABSENT"
      BY <3>1
    <3>5. \A e \in Execs : exec'[e] = "waiting" => cb'.token = e
      BY <3>1
    <3>6. \A c \in Deciders : c \in current' \/ HoldsClaim(c)' => seen'[c].token = cb'.token
      BY <3>1, <3>3
    <3>7. \A c \in Deciders :
            HoldsClaim(c)' => /\ cb'.status = "DECIDING" /\ cb'.claimant = c
                              /\ cb'.fresh /\ current' = {c}
      BY <3>1, <3>3
    <3>8. QED
      BY <3>1, <3>4, <3>5, <3>6, <3>7
  <2>3. QED
    BY <2>1, <2>2
<1>7. ASSUME NEW d \in Deciders, Apply(d) PROVE SlotInv'
  BY <1>7 DEF Apply, Goto
<1>8. ASSUME NEW d \in Deciders, ApplyRaises(d) PROVE SlotInv'
  BY <1>8 DEF ApplyRaises, Goto
<1>9. ASSUME NEW d \in Deciders, GiveBack(d) PROVE SlotInv'
  <2>1. HoldsClaim(d) /\ \A c \in Deciders : HoldsClaim(c) => c = d
    BY <1>9 DEF GiveBack
  <2>2. d \in current /\ seen[d].token = cb.token
    BY <2>1
  <2>3. /\ cb' = NoClaim([seen[d] EXCEPT !.status = "WAITING"]) /\ current' = {d}
        /\ pc' = [pc EXCEPT ![d] = "idle"] /\ UNCHANGED exec
        /\ seen' = [seen EXCEPT ![d] = NoCallback]
    BY <1>9, <2>2 DEF GiveBack, Wins, Loses, Leave, Goto
  <2>4. cb'.status = "WAITING" /\ cb'.token = cb.token
    BY <2>2, <2>3 DEF NoClaim, Callback
  <2>5. cb.status # "ABSENT"
    BY <1>9 DEF GiveBack
  <2>6. QED
    BY <2>1, <2>2, <2>3, <2>4, <2>5
<1>10. ASSUME NEW d \in Deciders, Deliver(d) PROVE SlotInv'
  BY <1>10 DEF Deliver, Goto
<1>11. ASSUME NEW d \in Deciders, SendFails(d) PROVE SlotInv'
  BY <1>11 DEF SendFails, Goto
<1>12. ASSUME NEW d \in Deciders, Finalize(d) PROVE SlotInv'
  <2>1. CASE Loses(d)
    BY <1>12, <2>1 DEF Finalize, Loses, Leave, Goto
  <2>2. CASE ~Loses(d)
    <3>1. /\ d \in current
          /\ cb' = NoClaim([seen[d] EXCEPT
                      !.status = IF pc[d] = "sent" THEN "RESUMED" ELSE "DECIDED_LOCALLY",
                      !.output = out[d]])
          /\ pc' = [pc EXCEPT ![d] = "idle"]
          /\ seen' = [seen EXCEPT ![d] = NoCallback]
          /\ UNCHANGED exec
      BY <1>12, <2>2 DEF Finalize, Wins, Leave, Goto
    <3>2. /\ cb'.status \in {"RESUMED", "DECIDED_LOCALLY"}
          /\ cb'.token = seen[d].token /\ seen[d].token = cb.token /\ current' = {d}
      BY <1>12, <2>2, <3>1 DEF Finalize, Wins, NoClaim, Callback
    <3>3. ASSUME NEW c \in Deciders, HoldsClaim(c) PROVE c = d
      <4>1. current = {c}
        BY <3>3
      <4>2. QED
        BY <3>1, <4>1
    <3>4. ASSUME NEW c \in Deciders PROVE ~HoldsClaim(c)'
      <4>1. CASE c = d
        BY <3>1, <4>1
      <4>2. CASE c # d
        BY <3>1, <3>3, <4>2
      <4>3. QED
        BY <4>1, <4>2
    <3>5. cb.status # "ABSENT"
      BY <1>12 DEF Finalize
    <3>6. QED
      BY <3>1, <3>2, <3>4, <3>5
  <2>3. QED
    BY <2>1, <2>2
<1>13. ASSUME NEW d \in Deciders, Crash(d) PROVE SlotInv'
  BY <1>13 DEF Crash, Leave, Goto
<1>14. CASE UNCHANGED vars
  BY <1>14 DEF vars
<1>15. QED
  BY <1>1, <1>2, <1>3, <1>4, <1>5, <1>6, <1>7, <1>8, <1>9, <1>10, <1>11, <1>12,
     <1>13, <1>14 DEF Next, Step

LEMMA ClaimInvariant == Spec => []ClaimInv
<1>1. Init => ClaimInv
  BY DEF Init, ClaimInv, SlotInv, NoCallback, HoldsClaim
<1>2. QED
  BY <1>1, ClaimStep, TypeCorrect, PTL DEF Spec

\* While a gate was armed by one execution, two live requests never both work
\* under a claim of it, in spite of crashes, stale claims being taken over,
\* give-backs and re-fires.
THEOREM OneClaimAtATime == Spec => []ClaimExclusive
<1>1. ClaimInv => ClaimExclusive
  BY DEF ClaimInv, SlotInv, ClaimExclusive
<1>2. QED
  BY <1>1, ClaimInvariant, PTL

\* The token of the execution that waits survives claims, give-backs and
\* re-fires: each of them rewrites the whole record from an earlier read.
THEOREM TokenIsKept == Spec => []WaitingTokenIsStored
<1>1. ClaimInv => WaitingTokenIsStored
  BY DEF ClaimInv, SlotInv, WaitingTokenIsStored
<1>2. QED
  BY <1>1, ClaimInvariant, PTL
-----------------------------------------------------------------------------
(***************************************************************************)
(* A gate that one execution came to keeps its answer, whether it records  *)
(* or not.  What a request read before its claim is undecided; a request   *)
(* that re-fires carries the output of the slot; and an answer that was    *)
(* sent is in the slot, in the hands of its sender, or lost with it.       *)
(***************************************************************************)
HandsInv ==
  /\ \A d \in Deciders :
       pc[d] \in {"read", "claimed", "giving_back"} => seen[d].status \notin Decided
  /\ \A d \in Deciders : pc[d] = "read" /\ d \in current => cb.status = seen[d].status
  /\ \A d \in Deciders :
       pc[d] \in {"sending", "sent", "unsent"} /\ seen[d].status \in Decided
         => cb.status \in Decided /\ cb.output = out[d]
  /\ Kept

KeptInv == ArmedOnce => HandsInv

LEMMA KeptStep == TypeOK /\ ClaimInv /\ KeptInv /\ [Next]_vars => KeptInv'
<1> SUFFICES ASSUME TypeOK, SlotInv, HandsInv, ArmedOnce, [Next]_vars, ArmedOnce'
             PROVE  HandsInv'
  BY ArmedOnceBefore DEF ClaimInv, KeptInv
<1> USE DEF HandsInv, Kept, Carries, HoldsClaim, TypeOK, Decided
<1>0. \A c, d \in Deciders : HoldsClaim(c) /\ d \in current => c = d
  BY DEF SlotInv
<1>1. ASSUME NEW e \in Execs, ArmRead(e) PROVE HandsInv'
  <2>1. \A f \in Execs : f # e => exec[f] = "running"
    BY <1>1 DEF ArmRead, ArmedOnce
  <2>2. \A d \in Deciders : pc[d] = "idle"
    BY <1>1, <2>1 DEF ArmRead, SlotInv
  <2>3. QED
    BY <1>1, <2>1, <2>2 DEF ArmRead
<1>2. ASSUME NEW e \in Execs, ArmWrite(e) PROVE HandsInv'
  <2>1. \A f \in Execs : f # e => exec[f] = "running"
    BY <1>2 DEF ArmWrite, ArmedOnce
  <2>2. \A d \in Deciders : pc[d] = "idle"
    BY <1>2 DEF ArmWrite, SlotInv
  <2>3. exec'[e] # "resumed" /\ \A f \in Execs : f # e => exec'[f] = exec[f]
    BY <1>2 DEF ArmWrite
  <2>4. QED
    BY <1>2, <2>1, <2>2, <2>3 DEF ArmWrite
<1>3. ASSUME NEW e \in Execs, TokenDies(e) PROVE HandsInv'
  BY <1>3 DEF TokenDies
<1>4. CASE ClaimGoesStale
  <2>1. cb'.status = cb.status /\ cb'.output = cb.output
    BY <1>4 DEF ClaimGoesStale, Callback
  <2>2. QED
    BY <1>4, <2>1 DEF ClaimGoesStale
<1>5. ASSUME NEW d \in Deciders, Read(d) PROVE HandsInv'
  BY <1>5 DEF Read, Goto
<1>6. ASSUME NEW d \in Deciders, Claim(d) PROVE HandsInv'
  <2>1. CASE Loses(d)
    BY <1>6, <2>1 DEF Claim, Wins, Loses, Leave, Goto
  <2>2. CASE ~Loses(d)
    <3>1. /\ d \in current /\ pc[d] = "read" /\ current' = {d}
          /\ pc' = [pc EXCEPT ![d] = "claimed"]
          /\ UNCHANGED <<seen, out, exec, result, lost>>
      BY <1>6, <2>2 DEF Claim, Wins, Goto
    <3>2. cb.status \notin Decided
      BY <3>1
    <3>3. \A c \in Deciders :
            pc[c] \in {"sending", "sent", "unsent"} => seen[c].status \notin Decided
      BY <3>2
    <3>4. \A c \in Deciders : ~HoldsClaim(c)
      BY <1>0, <3>1
    <3>5. \A e \in Execs : exec[e] = "resumed" => e \in lost
      BY <3>2, <3>4
    <3>6. QED
      BY <3>1, <3>3, <3>5
  <2>3. QED
    BY <2>1, <2>2
<1>7. ASSUME NEW d \in Deciders, Apply(d) PROVE HandsInv'
  BY <1>7 DEF Apply, Goto
<1>8. ASSUME NEW d \in Deciders, ApplyRaises(d) PROVE HandsInv'
  BY <1>8 DEF ApplyRaises, Goto
<1>9. ASSUME NEW d \in Deciders, GiveBack(d) PROVE HandsInv'
  <2>1. HoldsClaim(d) /\ cb.status = "DECIDING" /\ d \in current
    BY <1>9 DEF GiveBack, SlotInv
  <2>2. \A c \in Deciders : HoldsClaim(c) => c = d
    BY <1>0, <2>1
  <2>3. \A e \in Execs : exec[e] = "resumed" => e \in lost
    BY <1>9, <2>1, <2>2 DEF GiveBack
  <2>4. /\ pc' = [pc EXCEPT ![d] = "idle"] /\ current' = {d}
        /\ seen' = [seen EXCEPT ![d] = NoCallback] /\ out' = [out EXCEPT ![d] = None]
        /\ UNCHANGED <<exec, result, lost>>
    BY <1>9, <2>1 DEF GiveBack, Wins, Loses, Leave, Goto
  <2>5. QED
    BY <2>1, <2>3, <2>4
<1>10. ASSUME NEW d \in Deciders, Deliver(d) PROVE HandsInv'
  <2> DEFINE e == seen[d].token
  <2>1. /\ e \in Execs /\ exec[e] = "waiting" /\ pc[d] = "sending"
        /\ exec' = [exec EXCEPT ![e] = "resumed"]
        /\ result' = [result EXCEPT ![e] = out[d]]
        /\ pc' = [pc EXCEPT ![d] = "sent"] \/ pc' = [pc EXCEPT ![d] = "unsent"]
        /\ UNCHANGED <<cb, current, seen, out, lost>>
    BY <1>10 DEF Deliver, Goto, Callback
  <2>2. \A f \in Execs : f # e => exec'[f] # "resumed"
    BY <2>1 DEF ArmedOnce
  <2>3. result'[e] = out[d] /\ exec'[e] = "resumed"
    BY <2>1
  <2>4. CASE seen[d].status \in Decided
    BY <2>1, <2>2, <2>3, <2>4
  <2>5. CASE seen[d].status \notin Decided
    <3>1. Carries(d, e)'
      BY <2>1, <2>3, <2>5
    <3>2. QED
      BY <2>1, <2>2, <2>3, <3>1
  <2>6. QED
    BY <2>4, <2>5
<1>11. ASSUME NEW d \in Deciders, SendFails(d) PROVE HandsInv'
  BY <1>11 DEF SendFails, Goto
<1>12. ASSUME NEW d \in Deciders, Finalize(d) PROVE HandsInv'
  <2>0. /\ pc[d] \in {"sent", "unsent"} /\ pc' = [pc EXCEPT ![d] = "idle"]
        /\ seen' = [seen EXCEPT ![d] = NoCallback] /\ out' = [out EXCEPT ![d] = None]
        /\ UNCHANGED <<exec, result, lost>>
    BY <1>12 DEF Finalize, Leave, Goto
  <2>1. CASE Loses(d)
    <3>1. ~HoldsClaim(d)
      BY <2>1 DEF Loses, SlotInv
    <3>2. QED
      BY <2>0, <2>1, <3>1 DEF Loses
  <2>2. CASE ~Loses(d)
    <3>1. /\ d \in current /\ current' = {d}
          /\ cb' = NoClaim([seen[d] EXCEPT
                      !.status = IF pc[d] = "sent" THEN "RESUMED" ELSE "DECIDED_LOCALLY",
                      !.output = out[d]])
      BY <1>12, <2>2 DEF Finalize, Wins
    <3>2. cb'.status \in Decided /\ cb'.output = out[d]
      BY <3>1 DEF NoClaim, Callback
    <3>3. \A c \in Deciders :
            pc[c] \in {"sending", "sent", "unsent"} /\ seen[c].status \in Decided
              => out[c] = out[d]
      <4>1. CASE seen[d].status \in Decided
        BY <2>0, <4>1
      <4>2. CASE seen[d].status \notin Decided
        BY <2>0, <4>2 DEF SlotInv
      <4>3. QED
        BY <4>1, <4>2
    <3>4. \A e \in Execs : exec[e] = "resumed" => cb'.output = result[e] \/ e \in lost
      <4>1. ASSUME NEW e \in Execs, exec[e] = "resumed", e \notin lost
            PROVE  out[d] = result[e]
        <5>1. CASE cb.status \in Decided /\ cb.output = result[e]
          <6>1. ~HoldsClaim(d)
            BY <5>1 DEF SlotInv
          <6>2. QED
            BY <2>0, <5>1, <6>1
        <5>2. ASSUME NEW c \in Deciders, Carries(c, e), out[c] = result[e]
              PROVE  out[d] = result[e]
          BY <1>0, <3>1, <5>2
        <5>3. QED
          BY <4>1, <5>1, <5>2
      <4>2. QED
        BY <3>2, <4>1
    <3>5. QED
      BY <2>0, <3>1, <3>2, <3>3, <3>4
  <2>3. QED
    BY <2>1, <2>2
<1>13. ASSUME NEW d \in Deciders, Crash(d) PROVE HandsInv'
  <2>1. /\ pc' = [pc EXCEPT ![d] = "idle"]
        /\ seen' = [seen EXCEPT ![d] = NoCallback] /\ out' = [out EXCEPT ![d] = None]
        /\ lost' = lost \cup {e \in Execs : Carries(d, e)}
        /\ UNCHANGED <<cb, current, exec, result>>
    BY <1>13 DEF Crash, Leave, Goto
  <2>2. \A e \in Execs, c \in Deciders : Carries(c, e) => c = d \/ Carries(c, e)'
    BY <2>1
  <2>3. \A e \in Execs : Carries(d, e) => e \in lost'
    BY <2>1
  <2>4. \A c \in Deciders : c # d => out'[c] = out[c]
    BY <2>1
  <2>5. Kept'
    <3> SUFFICES ASSUME NEW e \in Execs, exec[e] = "resumed", e \notin lost'
                 PROVE  \/ cb.status \in Decided /\ cb.output = result[e]
                        \/ \E c \in Deciders : Carries(c, e)' /\ out'[c] = result[e]
      BY <2>1
    <3>1. e \notin lost
      BY <2>1
    <3> HIDE DEF Carries
    <3>2. QED
      BY <3>1, <2>2, <2>3, <2>4
  <2>6. QED
    BY <2>1, <2>5
<1>14. CASE UNCHANGED vars
  BY <1>14 DEF vars
<1>15. QED
  BY <1>1, <1>2, <1>3, <1>4, <1>5, <1>6, <1>7, <1>8, <1>9, <1>10, <1>11, <1>12,
     <1>13, <1>14 DEF Next, Step

LEMMA KeptInvariant == Spec => []KeptInv
<1>1. Init => KeptInv
  BY DEF Init, KeptInv, HandsInv, Kept, NoCallback
<1>2. QED
  BY <1>1, KeptStep, ClaimInvariant, TypeCorrect, PTL DEF Spec

\* Gates that record: every answer a pipeline runs on, and every output a decided
\* slot offers to a re-fire, is on record, with any number of executions that
\* re-arm the gate and whatever crashes and faults happen.  Gate 3, which records
\* nothing: while one execution came to it, its answer is in the decided slot
\* unless the request that sent it is not done yet or was killed before it was.
THEOREM OutputsOnRecord == Spec => []OutputsAreOnRecord
<1>1. RecordedInv /\ KeptInv => OutputsAreOnRecord
  BY DEF RecordedInv, KeptInv, HandsInv, OutputsAreOnRecord
<1>2. QED
  BY <1>1, RecordedInvariant, KeptInvariant, PTL
-----------------------------------------------------------------------------
(***************************************************************************)
(* No crash, no storage fault inside the side effect.  A DECIDING gate is  *)
(* held by a live request, so it is never taken over, and whoever is about *)
(* to apply a decision is the first to do so.                              *)
(***************************************************************************)
NoFaults == MaxCrashes = 0 /\ ~EffectFaults

OneExecution == \E e \in Execs : Execs = {e}

OnceInv ==
  /\ applied <= 1
  /\ ledger = {} <=> applied = 0
  /\ cb.status \in {"ABSENT", "WAITING"} => applied = 0
  /\ cb.status = "DECIDING" => HoldsClaim(cb.claimant)
  /\ \A d \in Deciders : pc[d] \in {"claimed", "giving_back"} => applied = 0
  /\ \A d \in Deciders :
       pc[d] \in {"read", "claimed", "giving_back"} => seen[d].status \notin Decided
  /\ \A d \in Deciders : pc[d] = "read" /\ d \in current => cb.status = "WAITING"
  /\ \A e \in Execs : exec[e] \in {"running", "arming", "waiting"} => result[e] = None

LEMMA OnceStep ==
  ASSUME OneExecution, NoFaults
  PROVE  TypeOK /\ ClaimInv /\ OnceInv /\ [Next]_vars => OnceInv'
<1> SUFFICES ASSUME TypeOK, SlotInv, OnceInv, [Next]_vars PROVE OnceInv'
  BY OneExecution DEF OneExecution, ArmedOnce, ClaimInv
<1> USE ClaimantAssumption DEF OnceInv, SlotInv, TypeOK, HoldsClaim, Decided
<1>1. ASSUME NEW e \in Execs, ArmRead(e) PROVE OnceInv'
  <2>1. \A d \in Deciders : pc[d] = "idle"
    BY <1>1, OneExecution DEF ArmRead, OneExecution
  <2>2. QED
    BY <1>1, <2>1 DEF ArmRead
<1>2. ASSUME NEW e \in Execs, ArmWrite(e) PROVE OnceInv'
  <2>1. cb.status = "ABSENT" /\ \A d \in Deciders : pc[d] = "idle"
    BY <1>2 DEF ArmWrite
  <2>2. cb' = cb \/ cb'.status = "WAITING"
    BY <1>2 DEF ArmWrite, Wins, Loses, NoCallback
  <2>3. QED
    BY <1>2, <2>1, <2>2 DEF ArmWrite
<1>3. ASSUME NEW e \in Execs, TokenDies(e) PROVE OnceInv'
  BY <1>3 DEF TokenDies
<1>4. CASE ClaimGoesStale
  BY <1>4 DEF ClaimGoesStale
<1>5. ASSUME NEW d \in Deciders, Read(d) PROVE OnceInv'
  <2>1. cb.status # "DECIDING"
    BY <1>5 DEF Read, InProgress
  <2>2. cb.status \in {"WAITING", "DECIDED_LOCALLY", "RESUMED"}
    BY <1>5, <2>1 DEF Read, Callback, Status
  <2>3. QED
    BY <1>5, <2>1, <2>2 DEF Read, Goto
<1>6. ASSUME NEW d \in Deciders, Claim(d) PROVE OnceInv'
  <2>1. CASE Loses(d)
    BY <1>6, <2>1 DEF Claim, Wins, Loses, Leave, Goto
  <2>2. CASE ~Loses(d)
    <3>1. /\ d \in current /\ current' = {d} /\ pc[d] = "read"
          /\ pc' = [pc EXCEPT ![d] = "claimed"]
          /\ UNCHANGED <<seen, exec, result, ledger, applied>>
      BY <1>6, <2>2 DEF Claim, Wins, Goto
    <3>2. cb' = [seen[d] EXCEPT !.status = "DECIDING", !.claimant = d, !.fresh = TRUE]
      BY <1>6, <2>2 DEF Claim, Wins
    <3>3. cb'.status = "DECIDING" /\ cb'.claimant = d
      BY <3>2 DEF Callback
    <3>4. applied = 0
      BY <3>1
    <3>5. QED
      BY <3>1, <3>3, <3>4
  <2>3. QED
    BY <2>1, <2>2
<1>7. ASSUME NEW d \in Deciders, Apply(d) PROVE OnceInv'
  <2>1. applied = 0 /\ ledger = {} /\ cb.status = "DECIDING" /\ cb.claimant = d
    BY <1>7 DEF Apply
  <2>2. \A c \in Deciders : pc[c] \in {"claimed", "giving_back"} => c = d
    BY <2>1
  <2>3. applied' \in {0, 1} /\ (ledger' = {} <=> applied' = 0)
    <3>1. \/ UNCHANGED <<ledger, applied>>
          \/ applied' = 1 /\ \E o \in Decisions : ledger' = ledger \cup {o}
      BY <1>7, <2>1 DEF Apply, Store
    <3>2. QED
      BY <2>1, <3>1
  <2>4. HoldsClaim(d)'
    BY <1>7 DEF Apply, Goto
  <2>5. QED
    BY <1>7, <2>1, <2>2, <2>3, <2>4 DEF Apply, Goto
<1>8. ASSUME NEW d \in Deciders, ApplyRaises(d) PROVE OnceInv'
  <2>1. UNCHANGED <<cb, current, seen, out, exec, result, ledger, applied>>
    BY <1>8, NoFaults DEF ApplyRaises, NoFaults
  <2>2. QED
    BY <1>8, <2>1 DEF ApplyRaises, Goto
<1>9. ASSUME NEW d \in Deciders, GiveBack(d) PROVE OnceInv'
  <2>1. /\ applied = 0 /\ current = {d}
        /\ \A c \in Deciders : HoldsClaim(c) => c = d
    BY <1>9 DEF GiveBack
  <2>2. cb' = NoClaim([seen[d] EXCEPT !.status = "WAITING"]) /\ current' = {d}
    BY <1>9, <2>1 DEF GiveBack, Wins, Loses
  <2>3. cb'.status = "WAITING"
    BY <2>2 DEF NoClaim, Callback
  <2>4. QED
    BY <1>9, <2>1, <2>2, <2>3 DEF GiveBack, Leave, Goto
<1>10. ASSUME NEW d \in Deciders, Deliver(d) PROVE OnceInv'
  BY <1>10 DEF Deliver, Goto
<1>11. ASSUME NEW d \in Deciders, SendFails(d) PROVE OnceInv'
  BY <1>11 DEF SendFails, Goto
<1>12. ASSUME NEW d \in Deciders, Finalize(d) PROVE OnceInv'
  <2>1. CASE Loses(d)
    <3>1. ~HoldsClaim(d)
      BY <2>1 DEF Loses
    <3>2. QED
      BY <1>12, <2>1, <3>1 DEF Finalize, Loses, Leave, Goto
  <2>2. CASE ~Loses(d)
    <3>1. /\ cb' = NoClaim([seen[d] EXCEPT
                      !.status = IF pc[d] = "sent" THEN "RESUMED" ELSE "DECIDED_LOCALLY",
                      !.output = out[d]])
          /\ current' = {d}
          /\ pc' = [pc EXCEPT ![d] = "idle"]
          /\ seen' = [seen EXCEPT ![d] = NoCallback]
          /\ UNCHANGED <<exec, result, ledger, applied>>
      BY <1>12, <2>2 DEF Finalize, Wins, Leave, Goto
    <3>2. cb'.status \in {"RESUMED", "DECIDED_LOCALLY"}
      BY <3>1 DEF NoClaim, Callback
    <3>3. QED
      BY <3>1, <3>2
  <2>3. QED
    BY <2>1, <2>2
<1>13. ASSUME NEW d \in Deciders, Crash(d) PROVE OnceInv'
  BY <1>13, NoFaults DEF Crash, NoFaults
<1>14. CASE UNCHANGED vars
  BY <1>14 DEF vars
<1>15. QED
  BY <1>1, <1>2, <1>3, <1>4, <1>5, <1>6, <1>7, <1>8, <1>9, <1>10, <1>11, <1>12,
     <1>13, <1>14 DEF Next, Step

LEMMA OnceInvariant == ASSUME OneExecution, NoFaults PROVE Spec => []OnceInv
<1>1. Init => OnceInv
  BY DEF Init, OnceInv, NoCallback, HoldsClaim
<1>2. QED
  BY <1>1, OnceStep, ClaimInvariant, TypeCorrect, PTL DEF Spec

\* Without crashes and faults the side effect of a gate is stored at most once,
\* however many reviewers fire and re-fire it and however often Step Functions
\* loses an answer.
THEOREM DecidedAtMostOnce ==
  ASSUME OneExecution, NoFaults PROVE Spec => []AtMostOnce
<1>1. OnceInv => AtMostOnce
  BY DEF OnceInv, AtMostOnce
<1>2. QED
  BY <1>1, OnceInvariant, PTL

\* The gate is not the third one.
AlwaysRecords == "activation" \notin Gates

LEMMA RefinementStep ==
  ASSUME OneExecution, NoFaults, AlwaysRecords
  PROVE  TypeOK /\ RecordedInv /\ OnceInv /\ [Next]_vars
           => [Once!Next]_<<ledger, result>>
<1> SUFFICES ASSUME TypeOK, RecordedInv, OnceInv, [Next]_vars
             PROVE  Once!Next \/ UNCHANGED <<ledger, result>>
  OBVIOUS
<1>0. Recording
  BY AlwaysRecords DEF AlwaysRecords, Recording, TypeOK
<1>1. ASSUME NEW d \in Deciders, Apply(d) PROVE Once!Decide
  <2>1. ledger = {}
    BY <1>1 DEF Apply, OnceInv
  <2>2. QED
    BY <1>0, <1>1, <2>1 DEF Apply, Store, Once!Decide
<1>2. ASSUME NEW d \in Deciders, ApplyRaises(d) PROVE UNCHANGED <<ledger, result>>
  BY <1>2, NoFaults DEF ApplyRaises, NoFaults
<1>3. ASSUME NEW d \in Deciders, Deliver(d)
      PROVE  \E e \in Execs : Once!Answer(e)
  <2>1. PICK e \in Execs : e = seen[d].token
    BY <1>3 DEF Deliver, TypeOK, Callback
  <2>2. result[e] = None
    BY <1>3, <2>1 DEF Deliver, OnceInv
  <2>3. out[d] \in ledger
    BY <1>0, <1>3 DEF Deliver, RecordedInv
  <2>4. result' = [result EXCEPT ![e] = out[d]] /\ UNCHANGED ledger
    BY <1>3, <2>1 DEF Deliver
  <2>5. QED
    BY <2>2, <2>3, <2>4 DEF Once!Answer
<1>4. QED
  BY <1>1, <1>2, <1>3
  DEF Next, Step, vars, ArmRead, ArmWrite, TokenDies, ClaimGoesStale, Read, Claim,
      GiveBack, SendFails, Finalize, Crash, Once!Next

\* At the gates that record, without crashes and faults, the versioned slot with
\* its claims, give-backs, stale reads, re-fires and lost answers implements the
\* promise of GateOnce: one decision on record, handed to the execution at most
\* once.
THEOREM GateImplementsOnce ==
  ASSUME OneExecution, NoFaults, AlwaysRecords PROVE Spec => ImplementsOnce
<1>1. Init => Once!Init
  BY DEF Init, Once!Init
<1>2. QED
  BY <1>1, RefinementStep, TypeCorrect, OnceInvariant, RecordedInvariant, PTL
  DEF Spec, Once!Spec, ImplementsOnce
=============================================================================
