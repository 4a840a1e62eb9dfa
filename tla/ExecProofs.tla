----------------------------- MODULE ExecProofs -----------------------------
(***************************************************************************)
(* Theorems about Exec, for any number of calls and urls.                  *)
(***************************************************************************)
EXTENDS Exec, TLAPS

\* A call of the RTSP flow has a path, one of the pipe flow none, and no connection before
\* its child's output is opened.
Flows ==
  \A k \in ExecCalls :
    /\ xpc[k] \in {"register", "select", "undo"} => xpath[k] # Pipe
    /\ xpc[k] = "open" => xpath[k] = Pipe
    /\ xpc[k] \in {"start", "open"} /\ xpath[k] = Pipe => link[k] = "none"
    /\ link[k] \in {"accepted", "found", "queued"} => xpath[k] # Pipe

\* A channel under a path belongs to a call with that path that will take it away.
Waiting ==
  \A p \in Paths : waiters[p] # NoCall =>
    xpath[waiters[p]] = p /\ xpc[waiters[p]] \in {"start", "select", "undo"}

\* The channel the server holds for a connection belongs to a call with the same path.
Looking ==
  \A k \in ExecCalls :
    /\ link[k] = "found" <=> target[k] # NoCall
    /\ target[k] # NoCall => xpath[target[k]] = xpath[k]

\* A connection is in one channel at most, of a call with the same path, and then nowhere else.
Queueing ==
  \A k \in ExecCalls : mailbox[k] # NoCall =>
    /\ link[mailbox[k]] = "queued"
    /\ xpath[mailbox[k]] = xpath[k]
    /\ \A j \in ExecCalls : mailbox[j] = mailbox[k] => j = k

\* A connection that some call returned is held by that call alone.
Holding ==
  \A k \in ExecCalls : got[k] # NoCall =>
    /\ link[got[k]] = "held"
    /\ got[k] # k => xpath[got[k]] = xpath[k] /\ xpath[k] # Pipe
    /\ \A j \in ExecCalls : got[j] = got[k] => j = k

XInv == /\ ExecTypeOK
        /\ Flows /\ Waiting /\ Looking /\ Queueing /\ Holding /\ NoStrayChild

-----------------------------------------------------------------------------

LEMMA InitExec == ExecInit => XInv
  BY ExecAssumption DEF ExecInit, XInv, ExecTypeOK, ExecPCs, ChildStates, LinkStates,
     Flows, Waiting, Looking, Queueing, Holding, NoStrayChild

LEMMA CalledKeeps == ASSUME XInv, NEW k \in ExecCalls, NEW p \in Paths \cup {Pipe}, Called(k, p) PROVE XInv'
  <1> USE ExecAssumption DEF XInv, Called, ExecGoes, Forgotten
  <1>1. ExecTypeOK' BY DEF ExecTypeOK, ExecPCs, ChildStates, LinkStates, Flows
  <1>2. Flows' BY DEF ExecTypeOK, Flows, Queueing, Holding
  <1>3. Waiting' BY DEF ExecTypeOK, Flows, Waiting
  <1>4. Looking' BY DEF ExecTypeOK, Flows, Waiting, Looking, Queueing, Holding
  <1>5. Queueing' BY DEF ExecTypeOK, Flows, Looking, Queueing, Holding
  <1>6. Holding' BY DEF ExecTypeOK, Flows, Queueing, Holding
  <1>7. NoStrayChild' BY DEF ExecTypeOK, NoStrayChild
  <1> QED BY <1>1, <1>2, <1>3, <1>4, <1>5, <1>6, <1>7

LEMMA RegistersKeeps == ASSUME XInv, NEW k \in ExecCalls, Registers(k) PROVE XInv'
  <1> USE ExecAssumption DEF XInv, Registers, ExecGoes
  <1>1. ExecTypeOK' BY DEF ExecTypeOK, ExecPCs, ChildStates, LinkStates, Flows
  <1>2. Flows' BY DEF ExecTypeOK, Flows, Queueing, Holding
  <1>3. Waiting' BY DEF ExecTypeOK, Flows, Waiting
  <1>4. Looking' BY DEF ExecTypeOK, Flows, Waiting, Looking, Queueing, Holding
  <1>5. Queueing' BY DEF ExecTypeOK, Flows, Looking, Queueing, Holding
  <1>6. Holding' BY DEF ExecTypeOK, Flows, Queueing, Holding
  <1>7. NoStrayChild' BY DEF ExecTypeOK, NoStrayChild
  <1> QED BY <1>1, <1>2, <1>3, <1>4, <1>5, <1>6, <1>7

LEMMA StartsKeeps == ASSUME XInv, NEW k \in ExecCalls, Starts(k) PROVE XInv'
  <1> USE ExecAssumption DEF XInv, Starts, ExecGoes
  <1>1. ExecTypeOK' BY DEF ExecTypeOK, ExecPCs, ChildStates, LinkStates, Flows
  <1>2. Flows' BY DEF ExecTypeOK, Flows, Queueing, Holding
  <1>3. Waiting' BY DEF ExecTypeOK, Flows, Waiting
  <1>4. Looking' BY DEF ExecTypeOK, Flows, Waiting, Looking, Queueing, Holding
  <1>5. Queueing' BY DEF ExecTypeOK, Flows, Looking, Queueing, Holding
  <1>6. Holding' BY DEF ExecTypeOK, Flows, Queueing, Holding
  <1>7. NoStrayChild' BY DEF ExecTypeOK, NoStrayChild
  <1> QED BY <1>1, <1>2, <1>3, <1>4, <1>5, <1>6, <1>7

LEMMA StartFailsKeeps == ASSUME XInv, NEW k \in ExecCalls, StartFails(k) PROVE XInv'
  <1> USE ExecAssumption DEF XInv, StartFails, ExecGoes
  <1>1. ExecTypeOK' BY DEF ExecTypeOK, ExecPCs, ChildStates, LinkStates, Flows
  <1>2. Flows' BY DEF ExecTypeOK, Flows, Queueing, Holding
  <1>3. Waiting' BY DEF ExecTypeOK, Flows, Waiting
  <1>4. Looking' BY DEF ExecTypeOK, Flows, Waiting, Looking, Queueing, Holding
  <1>5. Queueing' BY DEF ExecTypeOK, Flows, Looking, Queueing, Holding
  <1>6. Holding' BY DEF ExecTypeOK, Flows, Queueing, Holding
  <1>7. NoStrayChild' BY DEF ExecTypeOK, NoStrayChild
  <1> QED BY <1>1, <1>2, <1>3, <1>4, <1>5, <1>6, <1>7

LEMMA PipeOpensKeeps == ASSUME XInv, NEW k \in ExecCalls, PipeOpens(k) PROVE XInv'
  <1> USE ExecAssumption DEF XInv, PipeOpens, ExecGoes
  <1>1. ExecTypeOK' BY DEF ExecTypeOK, ExecPCs, ChildStates, LinkStates, Flows
  <1>2. Flows' BY DEF ExecTypeOK, Flows, Queueing, Holding
  <1>3. Waiting' BY DEF ExecTypeOK, Flows, Waiting
  <1>4. Looking' BY DEF ExecTypeOK, Flows, Waiting, Looking, Queueing, Holding
  <1>5. Queueing' BY DEF ExecTypeOK, Flows, Looking, Queueing, Holding
  <1>6. Holding' BY DEF ExecTypeOK, Flows, Queueing, Holding
  <1>7. NoStrayChild' BY DEF ExecTypeOK, NoStrayChild
  <1> QED BY <1>1, <1>2, <1>3, <1>4, <1>5, <1>6, <1>7

LEMMA PipeFailsKeeps == ASSUME XInv, NEW k \in ExecCalls, PipeFails(k) PROVE XInv'
  <1> USE ExecAssumption DEF XInv, PipeFails, ExecGoes
  <1>1. ExecTypeOK' BY DEF ExecTypeOK, ExecPCs, ChildStates, LinkStates, Flows
  <1>2. Flows' BY DEF ExecTypeOK, Flows, Queueing, Holding
  <1>3. Waiting' BY DEF ExecTypeOK, Flows, Waiting
  <1>4. Looking' BY DEF ExecTypeOK, Flows, Waiting, Looking, Queueing, Holding
  <1>5. Queueing' BY DEF ExecTypeOK, Flows, Looking, Queueing, Holding
  <1>6. Holding' BY DEF ExecTypeOK, Flows, Queueing, Holding
  <1>7. NoStrayChild' BY DEF ExecTypeOK, NoStrayChild
  <1> QED BY <1>1, <1>2, <1>3, <1>4, <1>5, <1>6, <1>7

LEMMA TimesOutKeeps == ASSUME XInv, NEW k \in ExecCalls, TimesOut(k) PROVE XInv'
  <1> USE ExecAssumption DEF XInv, TimesOut, ExecGoes
  <1>1. ExecTypeOK' BY DEF ExecTypeOK, ExecPCs, ChildStates, LinkStates, Flows
  <1>2. Flows' BY DEF ExecTypeOK, Flows, Queueing, Holding
  <1>3. Waiting' BY DEF ExecTypeOK, Flows, Waiting
  <1>4. Looking' BY DEF ExecTypeOK, Flows, Waiting, Looking, Queueing, Holding
  <1>5. Queueing' BY DEF ExecTypeOK, Flows, Looking, Queueing, Holding
  <1>6. Holding' BY DEF ExecTypeOK, Flows, Queueing, Holding
  <1>7. NoStrayChild' BY DEF ExecTypeOK, NoStrayChild
  <1> QED BY <1>1, <1>2, <1>3, <1>4, <1>5, <1>6, <1>7

LEMMA ChildIsDoneKeeps == ASSUME XInv, NEW k \in ExecCalls, ChildIsDone(k) PROVE XInv'
  <1> USE ExecAssumption DEF XInv, ChildIsDone, ExecGoes
  <1>1. ExecTypeOK' BY DEF ExecTypeOK, ExecPCs, ChildStates, LinkStates, Flows
  <1>2. Flows' BY DEF ExecTypeOK, Flows, Queueing, Holding
  <1>3. Waiting' BY DEF ExecTypeOK, Flows, Waiting
  <1>4. Looking' BY DEF ExecTypeOK, Flows, Waiting, Looking, Queueing, Holding
  <1>5. Queueing' BY DEF ExecTypeOK, Flows, Looking, Queueing, Holding
  <1>6. Holding' BY DEF ExecTypeOK, Flows, Queueing, Holding
  <1>7. NoStrayChild' BY DEF ExecTypeOK, NoStrayChild
  <1> QED BY <1>1, <1>2, <1>3, <1>4, <1>5, <1>6, <1>7

LEMMA ReceivesKeeps == ASSUME XInv, NEW k \in ExecCalls, Receives(k) PROVE XInv'
  <1> USE ExecAssumption DEF XInv, Receives, ExecGoes
  <1>1. ExecTypeOK' BY DEF ExecTypeOK, ExecPCs, ChildStates, LinkStates, Flows
  <1>2. Flows' BY DEF ExecTypeOK, Flows, Queueing, Holding
  <1>3. Waiting' BY DEF ExecTypeOK, Flows, Waiting
  <1>4. Looking' BY DEF ExecTypeOK, Flows, Waiting, Looking, Queueing, Holding
  <1>5. Queueing' BY DEF ExecTypeOK, Flows, Looking, Queueing, Holding
  <1>6. Holding' BY DEF ExecTypeOK, Flows, Queueing, Holding
  <1>7. NoStrayChild' BY DEF ExecTypeOK, NoStrayChild
  <1> QED BY <1>1, <1>2, <1>3, <1>4, <1>5, <1>6, <1>7

LEMMA UnregistersKeeps == ASSUME XInv, NEW k \in ExecCalls, Unregisters(k) PROVE XInv'
  <1> USE ExecAssumption DEF XInv, Unregisters, ExecGoes
  <1>1. ExecTypeOK' BY DEF ExecTypeOK, ExecPCs, ChildStates, LinkStates, Flows
  <1>2. Flows' BY DEF ExecTypeOK, Flows, Queueing, Holding
  <1>3. Waiting' BY DEF ExecTypeOK, Flows, Waiting
  <1>4. Looking' BY DEF ExecTypeOK, Flows, Waiting, Looking, Queueing, Holding
  <1>5. Queueing' BY DEF ExecTypeOK, Flows, Looking, Queueing, Holding
  <1>6. Holding' BY DEF ExecTypeOK, Flows, Queueing, Holding
  <1>7. NoStrayChild' BY DEF ExecTypeOK, NoStrayChild
  <1> QED BY <1>1, <1>2, <1>3, <1>4, <1>5, <1>6, <1>7

LEMMA FailsKeeps == ASSUME XInv, NEW k \in ExecCalls, Fails(k) PROVE XInv'
  <1> USE ExecAssumption DEF XInv, Fails, ExecGoes, Killed
  <1>1. ExecTypeOK' BY DEF ExecTypeOK, ExecPCs, ChildStates, LinkStates, Flows
  <1>2. Flows' BY DEF ExecTypeOK, Flows, Queueing, Holding
  <1>3. Waiting' BY DEF ExecTypeOK, Flows, Waiting
  <1>4. Looking' BY DEF ExecTypeOK, Flows, Waiting, Looking, Queueing, Holding
  <1>5. Queueing' BY DEF ExecTypeOK, Flows, Looking, Queueing, Holding
  <1>6. Holding' BY DEF ExecTypeOK, Flows, Queueing, Holding
  <1>7. NoStrayChild' BY DEF ExecTypeOK, NoStrayChild
  <1> QED BY <1>1, <1>2, <1>3, <1>4, <1>5, <1>6, <1>7

LEMMA ChildEndsKeeps == ASSUME XInv, NEW k \in ExecCalls, ChildEnds(k) PROVE XInv'
  <1> USE ExecAssumption DEF XInv, ChildEnds, ExecGoes
  <1>1. ExecTypeOK' BY DEF ExecTypeOK, ExecPCs, ChildStates, LinkStates, Flows
  <1>2. Flows' BY DEF ExecTypeOK, Flows, Queueing, Holding
  <1>3. Waiting' BY DEF ExecTypeOK, Flows, Waiting
  <1>4. Looking' BY DEF ExecTypeOK, Flows, Waiting, Looking, Queueing, Holding
  <1>5. Queueing' BY DEF ExecTypeOK, Flows, Looking, Queueing, Holding
  <1>6. Holding' BY DEF ExecTypeOK, Flows, Queueing, Holding
  <1>7. NoStrayChild' BY DEF ExecTypeOK, NoStrayChild
  <1> QED BY <1>1, <1>2, <1>3, <1>4, <1>5, <1>6, <1>7

LEMMA ConnectsKeeps == ASSUME XInv, NEW k \in ExecCalls, Connects(k) PROVE XInv'
  <1> USE ExecAssumption DEF XInv, Connects, ExecGoes
  <1>1. ExecTypeOK' BY DEF ExecTypeOK, ExecPCs, ChildStates, LinkStates, Flows
  <1>2. Flows' BY DEF ExecTypeOK, Flows, Queueing, Holding
  <1>3. Waiting' BY DEF ExecTypeOK, Flows, Waiting
  <1>4. Looking' BY DEF ExecTypeOK, Flows, Waiting, Looking, Queueing, Holding
  <1>5. Queueing' BY DEF ExecTypeOK, Flows, Looking, Queueing, Holding
  <1>6. Holding' BY DEF ExecTypeOK, Flows, Queueing, Holding
  <1>7. NoStrayChild' BY DEF ExecTypeOK, NoStrayChild
  <1> QED BY <1>1, <1>2, <1>3, <1>4, <1>5, <1>6, <1>7

LEMMA LooksKeeps == ASSUME XInv, NEW k \in ExecCalls, Looks(k) PROVE XInv'
  <1> USE ExecAssumption DEF XInv, Looks, ExecGoes
  <1>1. ExecTypeOK' BY DEF ExecTypeOK, ExecPCs, ChildStates, LinkStates, Flows
  <1>2. Flows' BY DEF ExecTypeOK, Flows, Queueing, Holding
  <1>3. Waiting' BY DEF ExecTypeOK, Flows, Waiting
  <1>4. Looking' BY DEF ExecTypeOK, Flows, Waiting, Looking, Queueing, Holding
  <1>5. Queueing' BY DEF ExecTypeOK, Flows, Looking, Queueing, Holding
  <1>6. Holding' BY DEF ExecTypeOK, Flows, Queueing, Holding
  <1>7. NoStrayChild' BY DEF ExecTypeOK, NoStrayChild
  <1> QED BY <1>1, <1>2, <1>3, <1>4, <1>5, <1>6, <1>7

LEMMA SendsKeeps == ASSUME XInv, NEW k \in ExecCalls, Sends(k) PROVE XInv'
  <1> USE ExecAssumption DEF XInv, Sends, ExecGoes
  <1>1. ExecTypeOK' BY DEF ExecTypeOK, ExecPCs, ChildStates, LinkStates, Flows
  <1>2. Flows' BY DEF ExecTypeOK, Flows, Queueing, Holding
  <1>3. Waiting' BY DEF ExecTypeOK, Flows, Waiting
  <1>4. Looking' BY DEF ExecTypeOK, Flows, Waiting, Looking, Queueing, Holding
  <1>5. Queueing' BY DEF ExecTypeOK, Flows, Looking, Queueing, Holding
  <1>6. Holding' BY DEF ExecTypeOK, Flows, Queueing, Holding
  <1>7. NoStrayChild' BY DEF ExecTypeOK, NoStrayChild
  <1> QED BY <1>1, <1>2, <1>3, <1>4, <1>5, <1>6, <1>7

LEMMA StopsProducerKeeps == ASSUME XInv, NEW k \in ExecCalls, StopsProducer(k) PROVE XInv'
  <1> USE ExecAssumption DEF XInv, StopsProducer, ExecGoes, Killed
  <1>1. ExecTypeOK' BY DEF ExecTypeOK, ExecPCs, ChildStates, LinkStates, Flows
  <1>2. Flows' BY DEF ExecTypeOK, Flows, Queueing, Holding
  <1>3. Waiting' BY DEF ExecTypeOK, Flows, Waiting
  <1>4. Looking' BY DEF ExecTypeOK, Flows, Waiting, Looking, Queueing, Holding
  <1>5. Queueing' BY DEF ExecTypeOK, Flows, Looking, Queueing, Holding
  <1>6. Holding' BY DEF ExecTypeOK, Flows, Queueing, Holding
  <1>7. NoStrayChild' BY DEF ExecTypeOK, NoStrayChild
  <1> QED BY <1>1, <1>2, <1>3, <1>4, <1>5, <1>6, <1>7

LEMMA CollectedKeeps == ASSUME XInv, NEW k \in ExecCalls, Collected(k) PROVE XInv'
  <1> USE ExecAssumption DEF XInv, Collected, ExecGoes
  <1>1. ExecTypeOK' BY DEF ExecTypeOK, ExecPCs, ChildStates, LinkStates, Flows
  <1>2. Flows' BY DEF ExecTypeOK, Flows, Queueing, Holding
  <1>3. Waiting' BY DEF ExecTypeOK, Flows, Waiting
  <1>4. Looking' BY DEF ExecTypeOK, Flows, Waiting, Looking, Queueing, Holding
  <1>5. Queueing' BY DEF ExecTypeOK, Flows, Looking, Queueing, Holding
  <1>6. Holding' BY DEF ExecTypeOK, Flows, Queueing, Holding
  <1>7. NoStrayChild' BY DEF ExecTypeOK, NoStrayChild
  <1> QED BY <1>1, <1>2, <1>3, <1>4, <1>5, <1>6, <1>7

-----------------------------------------------------------------------------

LEMMA NextExec == XInv /\ [ExecNext]_execVars => XInv'
  <1> SUFFICES ASSUME XInv, [ExecNext]_execVars PROVE XInv' OBVIOUS
  <1>1. ASSUME NEW k \in ExecCalls, NEW p \in Paths \cup {Pipe}, Called(k, p) PROVE XInv'
    BY <1>1, CalledKeeps
  <1>2. ASSUME NEW k \in ExecCalls, InExec(k) PROVE XInv'
    BY <1>2, RegistersKeeps, StartsKeeps, StartFailsKeeps, PipeOpensKeeps, PipeFailsKeeps,
       TimesOutKeeps, ChildIsDoneKeeps, ReceivesKeeps, UnregistersKeeps, FailsKeeps DEF InExec
  <1>3. ASSUME NEW k \in ExecCalls, OfChild(k) PROVE XInv'
    BY <1>3, ChildEndsKeeps, ConnectsKeeps, LooksKeeps, SendsKeeps DEF OfChild
  <1>4. ASSUME NEW k \in ExecCalls, StopsProducer(k) \/ Collected(k) PROVE XInv'
    BY <1>4, StopsProducerKeeps, CollectedKeeps
  <1>5. CASE UNCHANGED execVars
    BY <1>5 DEF execVars, XInv, ExecTypeOK, Flows, Waiting, Looking, Queueing, Holding, NoStrayChild
  <1> QED BY <1>1, <1>2, <1>3, <1>4, <1>5 DEF ExecNext

LEMMA ExecInvariance == ExecSpec => []XInv
  BY InitExec, NextExec, PTL DEF ExecSpec

\* The state of the calls, children, connections and channels keeps its type.
THEOREM ExecTypeCorrect == ExecSpec => []ExecTypeOK
  <1>1. XInv => ExecTypeOK BY DEF XInv
  <1> QED BY <1>1, ExecInvariance, PTL

\* execHandle's cmd.Close() and prod.OnClose leave no child running for nobody, with any
\* number of calls at any number of urls.
THEOREM NoChildIsLost == ExecSpec => []NoStrayChild
  <1>1. XInv => NoStrayChild BY DEF XInv
  <1> QED BY <1>1, ExecInvariance, PTL

\* The map waiters hands a connection only to calls of the url the child was started for.
THEOREM ConnectionsMatch == ExecSpec => []OwnUrl
  <1>1. XInv => OwnUrl BY DEF XInv, Holding, OwnUrl
  <1> QED BY <1>1, ExecInvariance, PTL

\* A connection that handleRTSP received is held by one producer.
THEOREM HeldOnce == ExecSpec => []HeldByOne
  <1>1. XInv => HeldByOne BY DEF XInv, Holding, HeldByOne
  <1> QED BY <1>1, ExecInvariance, PTL
=============================================================================
