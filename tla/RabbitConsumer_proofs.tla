------------------------ MODULE RabbitConsumer_proofs ------------------------
(***************************************************************************)
(* That the connection manager keeps to one reconnect and to one open      *)
(* pool, that it implements RabbitLink, and that a consumer over it        *)
(* returns idle, for any number of connections and any prefetch count.     *)
(***************************************************************************)
EXTENDS RabbitConsumer, FiniteSetTheorems, TLAPS

(* A reconnect that has begun and has not reset the flag.                  *)
Runs(n) == recon[n] \in {"try", "dialling", "dialled", "finish", "failed"}

(* Its connection is not the current one yet, and never will be if it      *)
(* failed.                                                                 *)
Dials(n) == recon[n] \in {"try", "dialling", "dialled", "failed"}

Watched(n) == watcher[n] \in {"start", "watching"}

(* One reconnect at most, and the flag says so.                            *)
ReconInv ==
    /\ \A n \in Gens : Runs(n) => isReconnecting
    /\ isReconnecting => \E n \in Gens : Runs(n)
    /\ \A m, n \in Gens : Runs(m) /\ Runs(n) => m = n

(* Watchers and reconnects are those of the current connection: a watcher  *)
(* is gone when its reconnect begins, and the connection it was for is     *)
(* replaced only by that reconnect.                                        *)
WatchInv ==
    /\ \A n \in Gens : Watched(n) => n = conn /\ (closed \/ isConnected)
    /\ \A n \in Gens : Dials(n) => n = conn /\ ~isConnected /\ ~Watched(n)
    /\ \A n \in Gens : recon[n] = "finish" => conn = n + 1 /\ (closed \/ isConnected)
    /\ isConnected => conn # NoGen

Pending(k) == \E r \in Gens : recon[r] = "dialled" /\ dialled[r] = k

(* The connections dialled so far: those up to the current one, and the    *)
(* next one while it waits to be installed.                                *)
LinkInv ==
    /\ \A n \in Gens : n <= conn => link[n] # "none"
    /\ \A n \in Gens : link[n] # "none" => n <= conn \/ Pending(n)
    /\ \A r \in Gens : recon[r] = "dialled" =>
           dialled[r] = conn + 1 /\ conn + 1 \in Gens /\ link[conn + 1] # "none"

PoolInv ==
    /\ ~closed /\ conn # NoGen => poolOpen[conn]
    /\ \A n \in Gens : poolOpen[n] => n = conn \/ Pending(n)
    /\ \A r \in Gens : recon[r] = "dialled" => poolOpen[dialled[r]]

ConnInv == TypeOK /\ ReconInv /\ WatchInv /\ LinkInv /\ PoolInv

(* What the consumer adds.                                                 *)
HeldInv ==
    /\ ready \in Nat /\ busy \in Nat /\ ready + busy <= Prefetch
    /\ busy > 0 => pc \in {"consuming", "draining"}

ConsumerInv == ConnInv /\ ConsumerTypeOK /\ HeldInv
-----------------------------------------------------------------------------
LEMMA InitConnInv == Init => ConnInv
<1> SUFFICES ASSUME Init
             PROVE  ConnInv
  OBVIOUS
<1>1. \A n \in Gens : n \in Nat \ {0} /\ ~(n <= NoGen)
  BY RabbitAssumption DEF Gens, NoGen
<1>2. TypeOK
  BY DEF Init, TypeOK
<1>3. ReconInv /\ WatchInv
  BY DEF Init, ReconInv, WatchInv, Runs, Dials, Watched
<1>4. LinkInv /\ PoolInv
  BY <1>1 DEF Init, LinkInv, PoolInv
<1> QED
  BY <1>2, <1>3, <1>4 DEF ConnInv

(* The next connection dialled is the one after the current.               *)
LEMMA DialsNext ==
    ASSUME ConnInv, NEW n \in Gens, recon[n] = "dialling",
           NEW k \in Gens, link[k] = "none", k > 1 => link[k - 1] # "none"
    PROVE  n = conn /\ k = conn + 1 /\ conn \in Gens
<1>1. MaxGen \in Nat \ {0} /\ Gens = 1 .. MaxGen
  BY RabbitAssumption DEF Gens
<1>2. n = conn /\ conn \in Gens /\ \A r \in Gens : recon[r] # "dialled"
  BY DEF ConnInv, ReconInv, WatchInv, Runs, Dials
<1>3. link[1] # "none" /\ ~(k <= conn)
  BY <1>1, <1>2 DEF ConnInv, LinkInv
<1>4. k > 1 /\ k - 1 \in Gens
  BY <1>1, <1>2, <1>3
<1>5. k - 1 <= conn
  BY <1>2, <1>4 DEF ConnInv, LinkInv, Pending
<1> QED
  BY <1>1, <1>2, <1>3, <1>5

(* What Install does, with the numbers worked out.                         *)
LEMMA InstallNext ==
    ASSUME ConnInv, NEW n \in Gens, Install(n)
    PROVE  /\ n = conn /\ conn + 1 \in Gens /\ link[conn + 1] # "none"
           /\ conn' = conn + 1 /\ dialled[n] = conn + 1
           /\ poolOpen' = [poolOpen EXCEPT ![conn] = FALSE]
           /\ poolOpen[conn + 1] => poolOpen'[conn + 1]
           /\ \A r \in Gens : recon'[r] # "dialled" /\ (r # n => recon[r] # "dialled")
<1>1. recon[n] = "dialled" /\ recon' = [recon EXCEPT ![n] = "finish"] /\ conn' = dialled[n]
  BY DEF Install
<1>2. n = conn /\ dialled[n] = conn + 1 /\ conn + 1 \in Gens /\ link[conn + 1] # "none"
  BY <1>1 DEF ConnInv, WatchInv, LinkInv, Dials
<1>3. conn # NoGen /\ conn + 1 # conn
  BY <1>2, RabbitAssumption DEF Gens, NoGen
<1>4. poolOpen' = [poolOpen EXCEPT ![conn] = FALSE]
  BY <1>3 DEF Install
<1>5. \A r \in Gens : r # n => recon[r] # "dialled"
  BY <1>1 DEF ConnInv, ReconInv, Runs
<1>6. \A r \in Gens : recon'[r] # "dialled"
  BY <1>1, <1>5 DEF ConnInv, TypeOK
<1> QED
  BY <1>1, <1>2, <1>3, <1>4, <1>5, <1>6 DEF ConnInv, TypeOK

LEMMA StepConnInv ==
    ASSUME ConnInv, [Next]_vars
    PROVE  ConnInv'
<1>1. TypeOK /\ ReconInv /\ WatchInv /\ LinkInv /\ PoolInv
  BY DEF ConnInv
<1>2. MaxGen \in Nat \ {0} /\ Gens \subseteq Nat \ {0} /\ 1 \in Gens /\ NoGen = 0
  BY RabbitAssumption DEF Gens, NoGen
<1>3. CASE Connect
  <2>1. TypeOK'
    BY <1>1, <1>2, <1>3 DEF Connect, TypeOK, managerVars
  <2>2. ReconInv'
    BY <1>1, <1>2, <1>3 DEF Connect, TypeOK, ReconInv, Runs, managerVars
  <2>3. WatchInv'
    BY <1>1, <1>2, <1>3 DEF Connect, TypeOK, ReconInv, WatchInv, LinkInv, Runs, Dials, Watched, managerVars
  <2>4. LinkInv'
    BY <1>1, <1>2, <1>3 DEF Connect, TypeOK, ReconInv, WatchInv, LinkInv, Runs, Dials, Pending, managerVars
  <2>5. PoolInv'
    BY <1>1, <1>2, <1>3 DEF Connect, TypeOK, ReconInv, WatchInv, LinkInv, PoolInv, Runs, Dials, Pending, managerVars
  <2> QED
    BY <2>1, <2>2, <2>3, <2>4, <2>5 DEF ConnInv
<1>4. CASE Close
  <2>1. TypeOK'
    <3>1. cancelled' \subseteq Gens /\ watcherCancel' = NoGen
      BY <1>1, <1>2, <1>4 DEF Close, TypeOK
    <3>2. poolOpen' \in [Gens -> BOOLEAN]
      BY <1>1, <1>2, <1>4 DEF Close, TypeOK
    <3>3. link' \in [Gens -> {"none", "open", "dropped", "closed"}]
      BY <1>1, <1>2, <1>4 DEF Close, TypeOK
    <3> QED
      BY <1>1, <1>4, <3>1, <3>2, <3>3 DEF Close, TypeOK
  <2>2. ReconInv'
    BY <1>1, <1>2, <1>4 DEF Close, TypeOK, ReconInv, Runs, managerVars
  <2>3. WatchInv'
    BY <1>1, <1>2, <1>4 DEF Close, TypeOK, ReconInv, WatchInv, LinkInv, Runs, Dials, Watched, managerVars
  <2>4. LinkInv'
    BY <1>1, <1>2, <1>4 DEF Close, TypeOK, ReconInv, WatchInv, LinkInv, Runs, Dials, Pending, managerVars
  <2>5. PoolInv'
    BY <1>1, <1>2, <1>4 DEF Close, TypeOK, ReconInv, WatchInv, LinkInv, PoolInv, Runs, Dials, Pending, managerVars
  <2> QED
    BY <2>1, <2>2, <2>3, <2>4, <2>5 DEF ConnInv
<1>5. ASSUME NEW n \in Gens, Drop(n)
      PROVE  ConnInv'
  <2>1. TypeOK'
    BY <1>1, <1>2, <1>5 DEF Drop, TypeOK, managerVars
  <2>2. ReconInv'
    BY <1>1, <1>2, <1>5 DEF Drop, TypeOK, ReconInv, Runs, managerVars
  <2>3. WatchInv'
    BY <1>1, <1>2, <1>5 DEF Drop, TypeOK, ReconInv, WatchInv, LinkInv, Runs, Dials, Watched, managerVars
  <2>4. LinkInv'
    BY <1>1, <1>2, <1>5 DEF Drop, TypeOK, ReconInv, WatchInv, LinkInv, Runs, Dials, Pending, managerVars
  <2>5. PoolInv'
    BY <1>1, <1>2, <1>5 DEF Drop, TypeOK, ReconInv, WatchInv, LinkInv, PoolInv, Runs, Dials, Pending, managerVars
  <2> QED
    BY <2>1, <2>2, <2>3, <2>4, <2>5 DEF ConnInv
<1>6. ASSUME NEW n \in Gens, WatchStart(n)
      PROVE  ConnInv'
  <2>1. TypeOK'
    BY <1>1, <1>2, <1>6 DEF WatchStart, TypeOK, managerVars
  <2>2. ReconInv'
    BY <1>1, <1>2, <1>6 DEF WatchStart, TypeOK, ReconInv, Runs, managerVars
  <2>3. WatchInv'
    BY <1>1, <1>2, <1>6 DEF WatchStart, TypeOK, ReconInv, WatchInv, LinkInv, Runs, Dials, Watched, managerVars
  <2>4. LinkInv'
    BY <1>1, <1>2, <1>6 DEF WatchStart, TypeOK, ReconInv, WatchInv, LinkInv, Runs, Dials, Pending, managerVars
  <2>5. PoolInv'
    BY <1>1, <1>2, <1>6 DEF WatchStart, TypeOK, ReconInv, WatchInv, LinkInv, PoolInv, Runs, Dials, Pending, managerVars
  <2> QED
    BY <2>1, <2>2, <2>3, <2>4, <2>5 DEF ConnInv
<1>7. ASSUME NEW n \in Gens, WatchDrop(n)
      PROVE  ConnInv'
  <2>1. TypeOK'
    BY <1>1, <1>2, <1>7 DEF WatchDrop, TypeOK, managerVars
  <2>2. ReconInv'
    BY <1>1, <1>2, <1>7 DEF WatchDrop, TypeOK, ReconInv, Runs, managerVars
  <2>3. WatchInv'
    BY <1>1, <1>2, <1>7 DEF WatchDrop, TypeOK, ReconInv, WatchInv, LinkInv, Runs, Dials, Watched, managerVars
  <2>4. LinkInv'
    BY <1>1, <1>2, <1>7 DEF WatchDrop, TypeOK, ReconInv, WatchInv, LinkInv, Runs, Dials, Pending, managerVars
  <2>5. PoolInv'
    BY <1>1, <1>2, <1>7 DEF WatchDrop, TypeOK, ReconInv, WatchInv, LinkInv, PoolInv, Runs, Dials, Pending, managerVars
  <2> QED
    BY <2>1, <2>2, <2>3, <2>4, <2>5 DEF ConnInv
<1>8. ASSUME NEW n \in Gens, WatchExit(n)
      PROVE  ConnInv'
  <2>1. TypeOK'
    BY <1>1, <1>2, <1>8 DEF WatchExit, TypeOK, managerVars
  <2>2. ReconInv'
    BY <1>1, <1>2, <1>8 DEF WatchExit, TypeOK, ReconInv, Runs, managerVars
  <2>3. WatchInv'
    BY <1>1, <1>2, <1>8 DEF WatchExit, TypeOK, ReconInv, WatchInv, LinkInv, Runs, Dials, Watched, managerVars
  <2>4. LinkInv'
    BY <1>1, <1>2, <1>8 DEF WatchExit, TypeOK, ReconInv, WatchInv, LinkInv, Runs, Dials, Pending, managerVars
  <2>5. PoolInv'
    BY <1>1, <1>2, <1>8 DEF WatchExit, TypeOK, ReconInv, WatchInv, LinkInv, PoolInv, Runs, Dials, Pending, managerVars
  <2> QED
    BY <2>1, <2>2, <2>3, <2>4, <2>5 DEF ConnInv
<1>9. ASSUME NEW n \in Gens, ReconnectCheck(n)
      PROVE  ConnInv'
  <2>1. TypeOK'
    BY <1>1, <1>2, <1>9 DEF ReconnectCheck, TypeOK, managerVars
  <2>2. ReconInv'
    BY <1>1, <1>2, <1>9 DEF ReconnectCheck, TypeOK, ReconInv, Runs, managerVars
  <2>3. WatchInv'
    BY <1>1, <1>2, <1>9 DEF ReconnectCheck, TypeOK, ReconInv, WatchInv, LinkInv, Runs, Dials, Watched, managerVars
  <2>4. LinkInv'
    BY <1>1, <1>2, <1>9 DEF ReconnectCheck, TypeOK, ReconInv, WatchInv, LinkInv, Runs, Dials, Pending, managerVars
  <2>5. PoolInv'
    BY <1>1, <1>2, <1>9 DEF ReconnectCheck, TypeOK, ReconInv, WatchInv, LinkInv, PoolInv, Runs, Dials, Pending, managerVars
  <2> QED
    BY <2>1, <2>2, <2>3, <2>4, <2>5 DEF ConnInv
<1>10. ASSUME NEW n \in Gens, DialOk(n)
      PROVE  ConnInv'
  <2>1. TypeOK'
    BY <1>1, <1>2, <1>10 DEF DialOk, TypeOK, managerVars
  <2>2. ReconInv'
    BY <1>1, <1>2, <1>10 DEF DialOk, TypeOK, ReconInv, Runs, managerVars
  <2>3. WatchInv'
    BY <1>1, <1>2, <1>10 DEF DialOk, TypeOK, ReconInv, WatchInv, LinkInv, Runs, Dials, Watched, managerVars
  <2>4. LinkInv'
    <3>1. PICK k \in Gens : /\ recon[n] = "dialling" /\ link[k] = "none"
                            /\ k > 1 => link[k - 1] # "none"
                            /\ link' = [link EXCEPT ![k] = "open"]
                            /\ dialled' = [dialled EXCEPT ![n] = k]
                            /\ recon' = [recon EXCEPT ![n] = "dialled"]
                            /\ UNCHANGED conn
      BY <1>10 DEF DialOk, managerVars
    <3>2. n = conn /\ conn \in Gens /\ \A r \in Gens : recon[r] # "dialled"
      BY <1>1, <3>1 DEF ReconInv, WatchInv, Runs, Dials
    <3>3. k = conn + 1
      BY <1>1, <1>10, <3>1, <3>2, DialsNext
    <3>4. link'[k] = "open" /\ \A m \in Gens \ {k} : link'[m] = link[m]
      BY <1>1, <3>1 DEF TypeOK
    <3>5. recon'[n] = "dialled" /\ dialled'[n] = k /\ \A r \in Gens \ {n} : recon'[r] # "dialled"
      BY <1>1, <3>1, <3>2 DEF TypeOK
    <3>6. Pending(k)'
      BY <3>5 DEF Pending
    <3>7. \A m \in Gens : link'[m] # "none" => m <= conn \/ Pending(m)'
      BY <1>1, <3>2, <3>4, <3>6 DEF LinkInv, Pending
    <3>8. \A m \in Gens : m <= conn => link'[m] # "none"
      BY <1>1, <3>4 DEF LinkInv
    <3>9. \A r \in Gens : recon'[r] = "dialled" =>
              dialled'[r] = conn + 1 /\ conn + 1 \in Gens /\ link'[conn + 1] # "none"
      BY <3>3, <3>4, <3>5
    <3> QED
      BY <3>1, <3>7, <3>8, <3>9 DEF LinkInv
  <2>5. PoolInv'
    BY <1>1, <1>2, <1>10 DEF DialOk, TypeOK, ReconInv, WatchInv, LinkInv, PoolInv, Runs, Dials, Pending, managerVars
  <2> QED
    BY <2>1, <2>2, <2>3, <2>4, <2>5 DEF ConnInv
<1>11. ASSUME NEW n \in Gens, DialFails(n)
      PROVE  ConnInv'
  <2>1. TypeOK'
    BY <1>1, <1>2, <1>11 DEF DialFails, TypeOK, managerVars
  <2>2. ReconInv'
    BY <1>1, <1>2, <1>11 DEF DialFails, TypeOK, ReconInv, Runs, managerVars
  <2>3. WatchInv'
    BY <1>1, <1>2, <1>11 DEF DialFails, TypeOK, ReconInv, WatchInv, LinkInv, Runs, Dials, Watched, managerVars
  <2>4. LinkInv'
    BY <1>1, <1>2, <1>11 DEF DialFails, TypeOK, ReconInv, WatchInv, LinkInv, Runs, Dials, Pending, managerVars
  <2>5. PoolInv'
    BY <1>1, <1>2, <1>11 DEF DialFails, TypeOK, ReconInv, WatchInv, LinkInv, PoolInv, Runs, Dials, Pending, managerVars
  <2> QED
    BY <2>1, <2>2, <2>3, <2>4, <2>5 DEF ConnInv
<1>12. ASSUME NEW n \in Gens, GiveUp(n)
      PROVE  ConnInv'
  <2>1. TypeOK'
    BY <1>1, <1>2, <1>12 DEF GiveUp, TypeOK, managerVars
  <2>2. ReconInv'
    BY <1>1, <1>2, <1>12 DEF GiveUp, TypeOK, ReconInv, Runs, managerVars
  <2>3. WatchInv'
    BY <1>1, <1>2, <1>12 DEF GiveUp, TypeOK, ReconInv, WatchInv, LinkInv, Runs, Dials, Watched, managerVars
  <2>4. LinkInv'
    BY <1>1, <1>2, <1>12 DEF GiveUp, TypeOK, ReconInv, WatchInv, LinkInv, Runs, Dials, Pending, managerVars
  <2>5. PoolInv'
    BY <1>1, <1>2, <1>12 DEF GiveUp, TypeOK, ReconInv, WatchInv, LinkInv, PoolInv, Runs, Dials, Pending, managerVars
  <2> QED
    BY <2>1, <2>2, <2>3, <2>4, <2>5 DEF ConnInv
<1>13. ASSUME NEW n \in Gens, Install(n)
      PROVE  ConnInv'
  <2>1. TypeOK'
    <3>1. dialled[n] \in Gens
      BY <1>13, InstallNext
    <3>2. cancelled' \subseteq Gens
      BY <1>1, <1>2, <1>13, <3>1 DEF Install, TypeOK
    <3> QED
      BY <1>1, <1>2, <1>13, <3>1, <3>2 DEF Install, TypeOK
  <2>2. ReconInv'
    BY <1>1, <1>2, <1>13 DEF Install, TypeOK, ReconInv, Runs, managerVars
  <2>3. WatchInv'
    BY <1>1, <1>2, <1>13 DEF Install, TypeOK, ReconInv, WatchInv, LinkInv, Runs, Dials, Watched, managerVars
  <2>4. LinkInv'
    BY <1>1, <1>2, <1>13 DEF Install, TypeOK, ReconInv, WatchInv, LinkInv, Runs, Dials, Pending, managerVars
  <2>5. PoolInv'
    <3>1. /\ n = conn /\ conn' = conn + 1 /\ conn + 1 \in Gens /\ dialled[n] = conn + 1
          /\ poolOpen' = [poolOpen EXCEPT ![conn] = FALSE]
          /\ \A r \in Gens : r # n => recon[r] # "dialled"
      BY <1>13, InstallNext
    <3>2. ~poolOpen'[conn] /\ \A m \in Gens \ {conn} : poolOpen'[m] = poolOpen[m]
      BY <1>1, <1>2, <3>1 DEF TypeOK
    <3>3. \A m \in Gens : poolOpen'[m] => m = conn'
      BY <1>1, <3>1, <3>2 DEF PoolInv, Pending
    <3>4. poolOpen'[conn']
      <4>1. recon[n] = "dialled"
        BY <1>13 DEF Install
      <4>2. poolOpen[conn + 1]
        BY <1>1, <3>1, <4>1 DEF PoolInv
      <4> QED
        BY <1>2, <3>1, <3>2, <4>2
    <3> QED
      BY <1>13, <3>3, <3>4, InstallNext DEF PoolInv
  <2> QED
    BY <2>1, <2>2, <2>3, <2>4, <2>5 DEF ConnInv
<1>14. ASSUME NEW n \in Gens, ReconnectEnd(n)
      PROVE  ConnInv'
  <2>1. TypeOK'
    BY <1>1, <1>2, <1>14 DEF ReconnectEnd, TypeOK, managerVars
  <2>2. ReconInv'
    BY <1>1, <1>2, <1>14 DEF ReconnectEnd, TypeOK, ReconInv, Runs, managerVars
  <2>3. WatchInv'
    BY <1>1, <1>2, <1>14 DEF ReconnectEnd, TypeOK, ReconInv, WatchInv, LinkInv, Runs, Dials, Watched, managerVars
  <2>4. LinkInv'
    BY <1>1, <1>2, <1>14 DEF ReconnectEnd, TypeOK, ReconInv, WatchInv, LinkInv, Runs, Dials, Pending, managerVars
  <2>5. PoolInv'
    BY <1>1, <1>2, <1>14 DEF ReconnectEnd, TypeOK, ReconInv, WatchInv, LinkInv, PoolInv, Runs, Dials, Pending, managerVars
  <2> QED
    BY <2>1, <2>2, <2>3, <2>4, <2>5 DEF ConnInv
<1>15. CASE UNCHANGED vars
  BY <1>1, <1>15 DEF ConnInv, TypeOK, ReconInv, WatchInv, LinkInv, PoolInv, Runs, Dials, Watched,
      Pending, vars, managerVars
<1> QED
  BY <1>3, <1>4, <1>5, <1>6, <1>7, <1>8, <1>9, <1>10, <1>11, <1>12, <1>13, <1>14, <1>15 DEF Next
-----------------------------------------------------------------------------
(* A step of the consumer is none of the connection manager's.             *)
LEMMA ConsumerStepIsManagers ==
    ASSUME [ConsumerNext]_allVars
    PROVE  [Next]_vars
BY DEF ConsumerNext, Start, Loop, Subscribe, Push, Deliver, HandlerDone, SingleStops,
       DistributorStops, PoolDrained, WaitEnd, Cancel, CloseConsumer, allVars

LEMMA InitConsumerInv == ConsumerInit => ConsumerInv
<1> SUFFICES ASSUME ConsumerInit
             PROVE  ConsumerInv
  OBVIOUS
<1>1. ConnInv
  BY InitConnInv DEF ConsumerInit
<1>2. Prefetch \in Nat \ {0}
  BY ConsumerAssumption
<1>3. HeldInv /\ 0 \in 0 .. Prefetch
  BY <1>2 DEF ConsumerInit, HeldInv
<1>4. ConsumerTypeOK
  BY <1>1, <1>3 DEF ConsumerInit, ConsumerTypeOK, ConnInv
<1> QED
  BY <1>1, <1>3, <1>4 DEF ConsumerInv

LEMMA StepConsumerInv ==
    ASSUME ConsumerInv, [ConsumerNext]_allVars
    PROVE  ConsumerInv'
<1>1. ConnInv' /\ TypeOK'
  BY ConsumerStepIsManagers, StepConnInv DEF ConsumerInv, ConnInv
<1>2. Prefetch \in Nat \ {0}
  BY ConsumerAssumption
<1>3. ConsumerTypeOK /\ HeldInv
  BY DEF ConsumerInv
<1>4. CASE UNCHANGED consumerVars
  BY <1>1, <1>3, <1>4 DEF ConsumerInv, ConsumerTypeOK, HeldInv, consumerVars
<1>5. CASE Start \/ WaitEnd
  BY <1>1, <1>3, <1>5 DEF Start, WaitEnd, ConsumerInv, ConsumerTypeOK, HeldInv
<1>6. CASE Loop
  BY <1>1, <1>3, <1>6 DEF Loop, GetsPool, ConsumerInv, ConsumerTypeOK, TypeOK, HeldInv, Returned
<1>7. CASE Subscribe
  BY <1>1, <1>3, <1>7 DEF Subscribe, ConsumerInv, ConsumerTypeOK, HeldInv
<1>8. CASE Push
  BY <1>1, <1>2, <1>3, <1>8 DEF Push, ConsumerInv, ConsumerTypeOK, HeldInv
<1>9. CASE Deliver
  BY <1>1, <1>2, <1>3, <1>9 DEF Deliver, ConsumerInv, ConsumerTypeOK, HeldInv
<1>10. CASE HandlerDone
  BY <1>1, <1>2, <1>3, <1>10 DEF HandlerDone, ConsumerInv, ConsumerTypeOK, HeldInv
<1>11. CASE SingleStops
  BY <1>1, <1>2, <1>3, <1>11 DEF SingleStops, ConsumerInv, ConsumerTypeOK, HeldInv, Returned
<1>12. CASE DistributorStops
  BY <1>1, <1>3, <1>12 DEF DistributorStops, ConsumerInv, ConsumerTypeOK, HeldInv
<1>13. CASE PoolDrained
  BY <1>1, <1>2, <1>3, <1>13 DEF PoolDrained, ConsumerInv, ConsumerTypeOK, HeldInv, Returned
<1>14. CASE Cancel \/ CloseConsumer
  BY <1>1, <1>3, <1>14 DEF Cancel, CloseConsumer, ConsumerInv, ConsumerTypeOK, HeldInv
<1> QED
  BY <1>4, <1>5, <1>6, <1>7, <1>8, <1>9, <1>10, <1>11, <1>12, <1>13, <1>14
  DEF ConsumerNext, allVars
-----------------------------------------------------------------------------
THEOREM ConnInvInvariant == Spec => []ConnInv
<1>1. ConnInv /\ [Next]_vars => ConnInv'
  BY StepConnInv
<1> QED
  BY InitConnInv, <1>1, PTL DEF Spec

THEOREM ConsumerInvariant == ConsumerSpec => []ConsumerInv
<1>1. ConsumerInv /\ [ConsumerNext]_allVars => ConsumerInv'
  BY StepConsumerInv
<1> QED
  BY InitConsumerInv, <1>1, PTL DEF ConsumerSpec

(* Consumers only read the connection manager: with one the manager still  *)
(* behaves as it does alone, so that its theorems hold here too.           *)
THEOREM ConsumerKeepsManager == ConsumerSpec => Spec
<1>1. ConsumerInit => Init
  BY DEF ConsumerInit
<1>2. [ConsumerNext]_allVars => [Next]_vars
  BY ConsumerStepIsManagers
<1> QED
  BY <1>1, <1>2, PTL DEF ConsumerSpec, Spec

(* Every variable of the manager and of the consumer keeps its type; the   *)
(* consumer never holds more than Prefetch deliveries.                     *)
THEOREM ConsumerTypeCorrect == ConsumerSpec => []ConsumerTypeOK
<1>1. ConsumerInv => ConsumerTypeOK
  BY DEF ConsumerInv
<1> QED
  BY ConsumerInvariant, <1>1, PTL

(* At most one goroutine reconnects, and isReconnecting says so, for any   *)
(* number of connections (connection.go:143-163).                          *)
THEOREM ReconnectCorrect == Spec => []OneReconnect
<1>1. ConnInv => OneReconnect
  <2> SUFFICES ASSUME ConnInv
               PROVE  Cardinality(Reconnecting) <= 1 /\ (isReconnecting <=> Reconnecting # {})
    BY DEF OneReconnect
  <2>1. isReconnecting <=> Reconnecting # {}
    BY DEF ConnInv, ReconInv, Runs, Reconnecting
  <2>2. \A m, n \in Reconnecting : m = n
    BY DEF ConnInv, ReconInv, Runs, Reconnecting
  <2>3. CASE Reconnecting = {}
    <3>1. Cardinality(Reconnecting) = 0
      BY <2>3, FS_EmptySet
    <3> QED
      BY <2>1, <3>1
  <2>4. CASE Reconnecting # {}
    <3>1. PICK n : n \in Reconnecting
      BY <2>4
    <3>2. Reconnecting = {n}
      BY <2>2, <3>1
    <3>3. Cardinality(Reconnecting) = 1
      BY <3>2, FS_Singleton
    <3> QED
      BY <2>1, <3>3
  <2> QED
    BY <2>3, <2>4
<1> QED
  BY ConnInvInvariant, <1>1, PTL

THEOREM ConsumerReconnectCorrect == ConsumerSpec => []OneReconnect
BY ConsumerKeepsManager, ReconnectCorrect

(* Whoever getChannelPool lets through gets the open pool of the current   *)
(* connection, and only the current connection, or the one that is about   *)
(* to replace it, has an open pool (connection.go:205-214, 244-264).       *)
THEOREM PoolCorrect == Spec => []PoolIsCurrent
<1>1. ConnInv => PoolIsCurrent
  BY DEF ConnInv, WatchInv, PoolInv, Pending, PoolIsCurrent, GetsPool
<1> QED
  BY ConnInvInvariant, <1>1, PTL

(* Start returns with no message in a handler (consumer.go:234-295).       *)
THEOREM ReturnsCorrect == ConsumerSpec => []ReturnsIdle
<1>1. ConsumerInv => ReturnsIdle
  BY DEF ConsumerInv, HeldInv, ReturnsIdle, Returned
<1> QED
  BY ConsumerInvariant, <1>1, PTL
-----------------------------------------------------------------------------
LEMMA LinkInit == Init => Link!LinkInit
BY DEF Init, Link!LinkInit, Link!Gens, Link!NoGen, Gens, NoGen

LEMMA LinkStep ==
    ASSUME ConnInv, [Next]_vars
    PROVE  [Link!LinkNext]_(Link!linkVars)
<1>1. TypeOK /\ ReconInv /\ WatchInv /\ LinkInv /\ PoolInv
  BY DEF ConnInv
<1>2. Link!Gens = Gens /\ Link!NoGen = NoGen
  BY DEF Link!Gens, Link!NoGen, Gens, NoGen
<1>3. ASSUME UNCHANGED <<link, poolOpen, conn, closed, isConnected, isReconnecting>>
      PROVE  UNCHANGED Link!linkVars
  BY <1>3 DEF Link!linkVars
<1>4. CASE Connect
  <2>1. ~isReconnecting
    BY <1>1, <1>4, RabbitAssumption DEF Connect, ReconInv, WatchInv, Runs, Dials, Gens, NoGen
  <2>2. Link!Connect
    BY <1>2, <1>4, <2>1 DEF Connect, Link!Connect
  <2> QED
    BY <2>2 DEF Link!LinkNext
<1>5. CASE Close
  <2>1. Link!Close
    BY <1>2, <1>5 DEF Close, Link!Close
  <2> QED
    BY <2>1 DEF Link!LinkNext
<1>6. ASSUME NEW n \in Gens, Drop(n)
      PROVE  Link!LinkNext
  <2>1. Link!Drop(n)
    BY <1>6 DEF Drop, managerVars, Link!Drop
  <2> QED
    BY <1>2, <2>1 DEF Link!LinkNext
<1>7. ASSUME NEW n \in Gens, WatchStart(n) \/ WatchExit(n) \/ ReconnectCheck(n)
                                \/ DialFails(n) \/ GiveUp(n)
      PROVE  UNCHANGED Link!linkVars
  BY <1>3, <1>7 DEF WatchStart, WatchExit, ReconnectCheck, DialFails, GiveUp, managerVars
<1>8. ASSUME NEW n \in Gens, WatchDrop(n)
      PROVE  [Link!LinkNext]_(Link!linkVars)
  <2>1. CASE closed \/ isReconnecting
    BY <1>3, <1>8, <2>1 DEF WatchDrop
  <2>2. CASE ~(closed \/ isReconnecting)
    <3>1. n = conn /\ isConnected
      BY <1>1, <1>8, <2>2 DEF WatchDrop, WatchInv, Watched
    <3>2. Link!Lose
      BY <1>8, <2>2, <3>1 DEF WatchDrop, Link!Lose
    <3> QED
      BY <3>2 DEF Link!LinkNext
  <2> QED
    BY <2>1, <2>2
<1>9. ASSUME NEW n \in Gens, DialOk(n)
      PROVE  Link!LinkNext
  <2>1. PICK k \in Gens :
            /\ recon[n] = "dialling" /\ link[k] = "none" /\ (k > 1 => link[k - 1] # "none")
            /\ link' = [link EXCEPT ![k] = "open"]
            /\ poolOpen' = [poolOpen EXCEPT ![k] = TRUE]
            /\ UNCHANGED managerVars
    BY <1>9 DEF DialOk
  <2>2. n = conn /\ k = conn + 1 /\ conn \in Gens
    BY <2>1, DialsNext
  <2>3. ~isConnected /\ conn # NoGen
    BY <1>1, <2>1, <2>2, RabbitAssumption DEF WatchInv, Dials, Gens, NoGen
  <2>4. Link!Dial(k)
    BY <1>2, <2>1, <2>2, <2>3 DEF Link!Dial, managerVars
  <2> QED
    BY <1>2, <2>4 DEF Link!LinkNext
<1>10. ASSUME NEW n \in Gens, Install(n)
       PROVE  Link!LinkNext
  <2>1. /\ n = conn /\ conn + 1 \in Gens /\ link[conn + 1] # "none" /\ conn' = conn + 1
        /\ poolOpen' = [poolOpen EXCEPT ![conn] = FALSE]
    BY <1>10, InstallNext
  <2>2. recon[n] = "dialled" /\ isConnected' = TRUE /\ UNCHANGED <<link, isReconnecting, closed>>
    BY <1>10 DEF Install
  <2>3. ~isConnected /\ isReconnecting /\ conn # NoGen
    BY <1>1, <2>1, <2>2, RabbitAssumption DEF ReconInv, WatchInv, Runs, Dials, Gens, NoGen
  <2>4. Link!Install
    BY <1>2, <2>1, <2>2, <2>3 DEF Link!Install
  <2> QED
    BY <2>4 DEF Link!LinkNext
<1>11. ASSUME NEW n \in Gens, ReconnectEnd(n)
       PROVE  [Link!LinkNext]_(Link!linkVars)
  <2>1. isReconnecting /\ isReconnecting' = FALSE /\ UNCHANGED <<link, poolOpen, conn, closed, isConnected>>
    BY <1>1, <1>11 DEF ReconnectEnd, ReconInv, Runs
  <2>2. CASE isConnected
    <3>1. Link!Resume
      BY <2>1, <2>2 DEF Link!Resume
    <3> QED
      BY <3>1 DEF Link!LinkNext
  <2>3. CASE ~isConnected
    BY <2>1, <2>3 DEF Link!linkVars
  <2> QED
    BY <2>2, <2>3
<1>12. CASE UNCHANGED vars
  BY <1>3, <1>12 DEF vars, managerVars
<1> QED
  BY <1>4, <1>5, <1>6, <1>7, <1>8, <1>9, <1>10, <1>11, <1>12 DEF Next

(* The connection manager implements RabbitLink: what its users see of it  *)
(* is a chain of connections, of which one is current and open, whatever   *)
(* watchers, flags and reconnects do (connection.go:143-239, 294-338).     *)
THEOREM ManagerImplementsLink == Spec => ImplementsLink
<1>1. ConnInv /\ [Next]_vars => [Link!LinkNext]_(Link!linkVars)
  BY LinkStep
<1> QED
  BY ConnInvInvariant, LinkInit, <1>1, PTL DEF Spec, ImplementsLink, Link!LinkSpec

THEOREM ConsumerImplementsLink == ConsumerSpec => ImplementsLink
BY ConsumerKeepsManager, ManagerImplementsLink
=============================================================================
