--------------------------- MODULE OffloadProofs ---------------------------
(***************************************************************************)
(* The two-ring pipeline of module Offload, for every capacity, every size *)
(* of g_send_ns of at least twice that, and every number of messages.      *)
(***************************************************************************)
EXTENDS Offload, TLAPS

LEMMA OffloadInit == Init => OffloadInv
<1> SUFFICES ASSUME Init PROVE OffloadInv
  OBVIOUS
<1>1. NoResults \in [1 .. Total -> Nat]
  BY DEF NoResults
<1>2. send_ns \in [0 .. DUMP_TS_SLOTS - 1 -> Nat]
  BY DEF Init
<1>4. shm \in {"none", "sized"} /\ ready = 0 /\ r_seq = NoResults /\ hpc = "start"
      /\ spc = "start" /\ attempted = 0 /\ dropped = 0 /\ tail_seen = 0
      /\ mode \in {"wait", "drop", "roundtrip"}
  BY DEF Init
<1>5. PICK old \in {0, 1} : pub_a = old /\ rel_a = 0 /\ pub_b = 0 /\ rel_b = 0
                             /\ seq_in = old /\ seq_out = old
  BY DEF Init
<1>6. TypeOK
  <2>1. /\ pub_a \in Nat /\ rel_a \in Nat /\ pub_b \in Nat /\ rel_b \in Nat
        /\ seq_in \in Nat /\ seq_out \in Nat
        /\ attempted \in 0 .. Total /\ dropped \in Nat /\ tail_seen \in Nat
    BY <1>4, <1>5, OffloadAssumption
  <2> QED BY <1>1, <1>2, <1>4, <2>1 DEF TypeOK
<1> QED BY <1>4, <1>6 DEF OffloadInv

(* Two numbers less than DUMP_TS_SLOTS apart share no slot of g_send_ns. *)
LEMMA SlotsDiffer ==
  ASSUME NEW j \in Nat, NEW k \in Nat, j < k, k - j < DUMP_TS_SLOTS
  PROVE  Slot(j) # Slot(k)
<1> DEFINE N == DUMP_TS_SLOTS
<1>1. N \in Nat /\ N > 0
  BY OffloadAssumption
<1>2. j = N * (j \div N) + (j % N) /\ j \div N \in Int /\ j % N \in 0 .. N - 1
  BY <1>1, SMT
<1>3. k = N * (k \div N) + (k % N) /\ k \div N \in Int /\ k % N \in 0 .. N - 1
  BY <1>1, SMT
<1> HIDE DEF N
<1>4. SUFFICES ASSUME j % N = k % N PROVE FALSE
  BY DEF Slot, N
<1>5. PICK d \in Int : d = (k \div N) - (j \div N)
  BY <1>2, <1>3
<1>6. k - j = N * d
  BY <1>1, <1>2, <1>3, <1>4, <1>5, SMT
<1>7. d >= 1 => N * d >= N
  BY <1>1, <1>5, SMT
<1>8. d <= 0 => N * d <= 0
  BY <1>1, <1>5, SMT
<1>9. N * d < N /\ N * d > 0
  BY <1>6 DEF N
<1> QED BY <1>1, <1>5, <1>7, <1>8, <1>9, SMT

LEMMA SlotType ==
  ASSUME NEW k \in Nat
  PROVE  Slot(k) \in 0 .. DUMP_TS_SLOTS - 1
BY OffloadAssumption DEF Slot

(* A window counted from an older position is no smaller. *)
LEMMA Behind ==
  ASSUME NEW p \in Int, NEW t \in Int, NEW r \in Int, NEW c \in Int,
         p - t <= c, t <= r
  PROVE  p - r <= c
OBVIOUS

(* Taking a result leaves fewer. *)
LEMMA RestShrinks ==
  ASSUME NEW r \in Nat, NEW q \in Nat, NEW p \in Nat, q = r \/ q = r + 1
  PROVE  \A k \in q + 1 .. p : k \in r + 1 .. p
OBVIOUS

-----------------------------------------------------------------------------
(* Every step keeps OffloadInv.                                            *)

Numbers ==
    /\ pub_a \in Nat /\ rel_a \in Nat /\ pub_b \in Nat /\ rel_b \in Nat
    /\ seq_in \in Nat /\ seq_out \in Nat
    /\ attempted \in 0 .. Total /\ dropped \in Nat /\ tail_seen \in Nat

LEMMA Counted == TypeOK => Numbers
BY DEF TypeOK, Numbers

LEMMA OffloadType == OffloadInv /\ [Next]_vars => TypeOK'
<1> SUFFICES ASSUME OffloadInv, [Next]_vars PROVE TypeOK'
  OBVIOUS
<1>0. TypeOK /\ (hpc \in {"drain", "publish", "await"} => attempted < Total)
  BY DEF OffloadInv, HostInv
<1>n. Numbers
  BY <1>0, Counted
<1> USE <1>0, OffloadAssumption DEF ring_a, ring_b, host
<1>7. CASE publish_payload
  <2>1. PICK t \in tail_seen .. rel_a :
              tail_seen' = t /\ (Accepted(t) \/ Refused(t))
    BY <1>7 DEF publish_payload, TypeOK
  <2>2. tail_seen' \in Nat
    BY <2>1, <1>n DEF Numbers
  <2>3. attempted' \in 0 .. Total /\ dropped' \in Nat /\ pub_a' \in Nat
    <3>1. attempted < Total
      BY <1>7 DEF publish_payload, TypeOK
    <3>2. /\ attempted' = attempted \/ attempted' = attempted + 1
          /\ dropped' = dropped \/ dropped' = dropped + 1
          /\ pub_a' = pub_a \/ pub_a' = pub_a + 1
      BY <2>1 DEF Accepted, Refused
    <3> QED BY <1>n, <3>1, <3>2 DEF Numbers
  <2>4. send_ns' \in [0 .. DUMP_TS_SLOTS - 1 -> Nat]
    <3>1. CASE send_ns' = send_ns
      BY <3>1 DEF TypeOK
    <3>2. CASE send_ns' = [send_ns EXCEPT ![Slot(seq_in)] = pub_a']
      BY <3>2, <2>3 DEF TypeOK
    <3>3. send_ns' = send_ns \/ send_ns' = [send_ns EXCEPT ![Slot(seq_in)] = pub_a']
      BY <2>1, Zenon DEF Accepted, Refused
    <3> QED BY <3>1, <3>2, <3>3
  <2>5. hpc' \in {"loop", "await"}
    BY <2>1 DEF Accepted, Refused
  <2> QED BY <1>7, <2>2, <2>3, <2>4, <2>5 DEF publish_payload, TypeOK
<1> USE DEF TypeOK
<1>1. CASE map_shared
  BY <1>1 DEF map_shared
<1>2. CASE init_rings
  BY <1>2 DEF init_rings, NoResults
<1>3. CASE LoopAgain
  BY <1>3 DEF LoopAgain
<1>4. CASE LoopEnd
  BY <1>4 DEF LoopEnd
<1>5. CASE DrainLive
  BY <1>5 DEF DrainLive, TakeResult
<1>6. CASE DrainEnd
  BY <1>6 DEF DrainEnd
<1>8. CASE run_roundtrip
  <2>1. attempted' \in 0 .. Total /\ rel_b' \in Nat
    BY <1>8 DEF run_roundtrip, TakeResult
  <2>2. hpc' \in {"loop", "failed"}
    BY <1>8 DEF run_roundtrip
  <2> QED BY <1>8, <2>1, <2>2 DEF run_roundtrip
<1>9. CASE drain_results
  BY <1>9 DEF drain_results, TakeResult
<1>10. CASE DrainIdle
  BY <1>10 DEF DrainIdle
<1>11. CASE StubMap \/ StubReady \/ StubQuit
  BY <1>11, Zenon DEF StubMap, StubReady, StubQuit
<1>12. CASE StubConsume
  BY <1>12 DEF StubConsume
<1>13. CASE StubPublish
  <2>1. pub_b' \in Nat
    BY <1>13 DEF StubPublish
  <2>2. r_seq' \in [1 .. Total -> Nat]
    BY <1>13 DEF StubPublish
  <2> QED BY <1>13, <2>1, <2>2 DEF StubPublish
<1>14. CASE StubRelease
  BY <1>14 DEF StubRelease
<1>15. CASE UNCHANGED vars
  BY <1>15, Zenon DEF vars
<1> QED
  BY <1>1, <1>2, <1>3, <1>4, <1>5, <1>6, <1>7, <1>8, <1>9, <1>10, <1>11, <1>12,
     <1>13, <1>14, <1>15 DEF Next, Host, Stub

LEMMA OffloadNext == OffloadInv /\ [Next]_vars => OffloadInv'
<1> SUFFICES ASSUME OffloadInv, [Next]_vars PROVE OffloadInv'
  OBVIOUS
<1>0. TypeOK /\ TypeOK'
  BY OffloadType DEF OffloadInv
<1> DEFINE Early == hpc \in {"start", "truncate", "init"}
           EarlyInv == /\ ready = 0 /\ spc \in {"start", "wait", "gone"}
                       /\ attempted = 0 /\ dropped = 0 /\ tail_seen = 0
           Inv == CountersInv /\ ResultsInv /\ HostInv /\ StampsInv
<1>a. (Early => EarlyInv) /\ (~ Early => Inv)
  BY DEF OffloadInv
<1>b. SUFFICES (Early' => EarlyInv') /\ (~ Early' => Inv')
  BY <1>0 DEF OffloadInv
<1>n. Numbers /\ Numbers'
  BY <1>0 DEF TypeOK, Numbers
<1> USE OffloadAssumption, <1>0 DEF ring_a, ring_b, host
<1>1. CASE map_shared
  <2>1. Early /\ Early'
    BY <1>1 DEF map_shared
  <2> QED BY <1>1, <1>a, <2>1 DEF map_shared
<1>2. CASE init_rings
  <2>1. Early /\ ~ Early' /\ EarlyInv
    BY <1>2, <1>a DEF init_rings
  <2>2. CountersInv'
    BY <1>2, <2>1 DEF init_rings, CountersInv
  <2>3. HostInv'
    BY <1>n, <1>2, <2>1 DEF init_rings, HostInv, Numbers
  <2>4. StampsInv' /\ ResultsInv'
    BY <1>2 DEF init_rings, StampsInv, ResultsInv
  <2> QED BY <2>1, <2>2, <2>3, <2>4
<1>3. CASE LoopAgain
  <2>1. Inv /\ ~ Early'
    BY <1>3, <1>a DEF LoopAgain
  <2>2. CountersInv'
    BY <1>3, <2>1 DEF LoopAgain, CountersInv
  <2>3. HostInv'
    BY <1>n, <1>3, <2>1 DEF LoopAgain, HostInv, CountersInv, Numbers
  <2>4. StampsInv' /\ ResultsInv'
    BY <1>3, <2>1 DEF LoopAgain, StampsInv, ResultsInv
  <2> QED BY <2>1, <2>2, <2>3, <2>4
<1>4. CASE LoopEnd
  <2>1. Inv /\ ~ Early'
    BY <1>4, <1>a DEF LoopEnd
  <2>2. CountersInv'
    BY <1>4, <2>1 DEF LoopEnd, CountersInv
  <2>3. HostInv'
    BY <1>n, <1>4, <2>1 DEF LoopEnd, HostInv, Numbers
  <2>4. StampsInv' /\ ResultsInv'
    BY <1>4, <2>1 DEF LoopEnd, StampsInv, ResultsInv
  <2> QED BY <2>1, <2>2, <2>3, <2>4
<1>5. CASE DrainLive
  <2>1. Inv /\ ~ Early'
    BY <1>5, <1>a DEF DrainLive
  <2>2. CountersInv'
    BY <1>n, <1>5, <2>1 DEF DrainLive, TakeResult, CountersInv, Numbers
  <2>3. HostInv'
    BY <1>n, <1>5, <2>1 DEF DrainLive, TakeResult, HostInv, Numbers
  <2>4. StampsInv' /\ ResultsInv'
    BY <1>n, <1>5, <2>1 DEF DrainLive, TakeResult, StampsInv, ResultsInv, Numbers
  <2> QED BY <2>1, <2>2, <2>3, <2>4
<1>6. CASE DrainEnd
  <2>1. Inv /\ ~ Early'
    BY <1>6, <1>a DEF DrainEnd
  <2>2. CountersInv'
    BY <1>6, <2>1 DEF DrainEnd, CountersInv
  <2>3. HostInv'
    BY <1>n, <1>6, <2>1 DEF DrainEnd, HostInv, Numbers
  <2>4. StampsInv' /\ ResultsInv'
    BY <1>6, <2>1 DEF DrainEnd, StampsInv, ResultsInv
  <2> QED BY <2>1, <2>2, <2>3, <2>4
<1>7. CASE publish_payload
  <2>1. Inv /\ hpc = "publish"
    BY <1>7, <1>a DEF publish_payload
  <2>2. PICK t \in tail_seen .. rel_a :
              tail_seen' = t /\ (Accepted(t) \/ Refused(t))
    BY <1>7 DEF publish_payload
  <2>t. tail_seen' = t /\ t \in Int /\ tail_seen <= t /\ t <= rel_a
    BY <1>n, <2>2 DEF Numbers
  <2>3. ~ Early'
    BY <2>2 DEF Accepted, Refused
  <2>4. pub_a' - t <= capacity /\ pub_a' >= pub_a
    <3>1. (pub_a - t < capacity /\ pub_a' = pub_a + 1) \/ pub_a' = pub_a
      BY <2>2, Zenon DEF Accepted, Refused
    <3>2. pub_a - tail_seen <= capacity
      BY <2>1, Zenon DEF CountersInv
    <3>3. pub_a \in Int /\ tail_seen \in Int /\ capacity \in Int
      BY <1>n DEF Numbers
    <3>4. pub_a - t <= capacity
      BY <2>t, <3>2, <3>3, Behind
    <3> HIDE OffloadAssumption, <1>0
    <3> QED BY <2>t, <3>1, <3>3, <3>4
  <2>5. CountersInv'
    <3>1. /\ pub_a' >= pub_a /\ tail_seen' <= rel_a /\ pub_a' - tail_seen' <= capacity
          /\ UNCHANGED <<rel_a, ring_b, seq_out, spc>>
      BY <1>7, <2>t, <2>4 DEF publish_payload
    <3>2. seq_out <= pub_a => seq_out <= pub_a'
      BY <1>n, <3>1 DEF Numbers
    <3> QED BY <2>1, <3>1, <3>2 DEF CountersInv
  <2>6. HostInv'
    <3>1. CASE Accepted(t)
      <4>1. CASE mode = "roundtrip"
        BY <1>n, <1>7, <2>1, <3>1, <4>1 DEF publish_payload, Accepted, HostInv, Numbers
      <4>2. CASE mode # "roundtrip"
        <5>1. /\ pub_a' = pub_a + 1 /\ dropped' = dropped
              /\ hpc' = "loop" /\ attempted' = attempted + 1
          BY <3>1, <4>2, Zenon DEF Accepted
        <5> QED BY <1>n, <1>7, <2>1, <4>2, <5>1 DEF publish_payload, HostInv, Numbers
      <4> QED BY <4>1, <4>2
    <3>2. CASE Refused(t)
      BY <1>n, <1>7, <2>1, <3>2 DEF publish_payload, Refused, HostInv, Numbers
    <3> QED BY <2>2, <3>1, <3>2
  <2>7. StampsInv'
    <3>1. SUFFICES ASSUME mode = "wait", NEW k \in rel_b + 1 .. pub_a'
                   PROVE  send_ns'[Slot(k)] = k
      BY <1>7 DEF publish_payload, StampsInv
    <3>2. Accepted(t)
      BY <2>2, <3>1 DEF Refused
    <3>3. /\ pub_a' = pub_a + 1 /\ seq_in = pub_a'
          /\ send_ns' = [send_ns EXCEPT ![Slot(pub_a')] = pub_a']
      <4>1. pub_a' = pub_a + 1 /\ send_ns' = [send_ns EXCEPT ![Slot(seq_in)] = pub_a']
        BY <3>1, <3>2 DEF Accepted
      <4>2. seq_in = pub_a + 1
        BY <1>n, <2>1, <3>1 DEF HostInv, Numbers
      <4> QED BY <4>1, <4>2
    <3>4. CASE k = pub_a'
      BY <3>3, <3>4, SlotType DEF TypeOK
    <3>5. CASE k # pub_a'
      <4>1. k \in Nat /\ k \in rel_b + 1 .. pub_a
        BY <1>n, <3>3, <3>5 DEF Numbers
      <4>2. pub_a' - k < DUMP_TS_SLOTS /\ k < pub_a'
        <5>1. pub_a' - rel_a <= capacity
          <6>1. pub_a' \in Int /\ rel_a \in Int /\ capacity \in Int
            BY <1>n DEF Numbers
          <6> QED BY <2>t, <2>4, <6>1, Behind
        <5>2. rel_a - rel_b <= capacity
          BY <1>n, <2>1 DEF CountersInv, Numbers
        <5> QED BY <1>n, <4>1, <5>1, <5>2, <3>3 DEF Numbers
      <4>3. Slot(k) # Slot(pub_a')
        BY <1>n, <4>1, <4>2, SlotsDiffer DEF Numbers
      <4>4. send_ns[Slot(k)] = k
        BY <2>1, <3>1, <4>1 DEF StampsInv
      <4> QED BY <3>3, <4>1, <4>3, <4>4, SlotType DEF TypeOK
    <3> QED BY <3>4, <3>5
  <2>8. ResultsInv'
    BY <1>7, <2>1 DEF publish_payload, ResultsInv
  <2> QED BY <2>3, <2>5, <2>6, <2>7, <2>8
<1>8. CASE run_roundtrip
  <2>1. Inv /\ hpc = "await"
    BY <1>8, <1>a DEF run_roundtrip
  <2>2. mode = "roundtrip" /\ pub_a = rel_b + 1 /\ seq_in = pub_a
    BY <1>n, <2>1 DEF HostInv, Numbers
  <2>3. rel_b' = rel_b + 1 /\ rel_b' \in 1 .. pub_b
    BY <1>8, <1>n DEF run_roundtrip, TakeResult, Numbers
  <2>4. r_seq[rel_b'] = seq_in
    BY <1>n, <2>1, <2>2, <2>3 DEF CountersInv, ResultsInv, Numbers
  <2>5. hpc' = "loop" /\ attempted' = attempted + 1
    BY <1>8, <2>4 DEF run_roundtrip
  <2>6. CountersInv'
    BY <1>n, <1>8, <2>1, <2>3 DEF run_roundtrip, CountersInv, Numbers
  <2>7. HostInv'
    BY <1>n, <1>8, <2>1, <2>2, <2>3, <2>5 DEF run_roundtrip, HostInv, Numbers
  <2>8. StampsInv' /\ ResultsInv'
    BY <1>8, <2>1, <2>2 DEF run_roundtrip, StampsInv, ResultsInv
  <2> QED BY <2>5, <2>6, <2>7, <2>8
<1>9. CASE drain_results
  <2>1. Inv /\ ~ Early'
    BY <1>9, <1>a DEF drain_results
  <2>0. /\ rel_b' = rel_b \/ (rel_b < pub_b /\ rel_b' = rel_b + 1)
        /\ UNCHANGED <<ring_a, pub_b, r_seq, seq_out, mode, send_ns, tail_seen, spc>>
    <3>1. rel_b' = rel_b \/ (rel_b < pub_b /\ rel_b' = rel_b + 1)
      BY <1>9, Zenon DEF drain_results, TakeResult
    <3> QED BY <1>9, <3>1, Zenon DEF drain_results
  <2>2. CountersInv'
    <3>1. CASE rel_b' = rel_b
      BY <2>0, <2>1, <3>1 DEF CountersInv
    <3>2. CASE rel_b < pub_b /\ rel_b' = rel_b + 1
      BY <1>n, <2>0, <2>1, <3>2 DEF CountersInv, Numbers
    <3> QED BY <2>0, <3>1, <3>2
  <2>3. HostInv'
    BY <1>n, <1>9, <2>1 DEF drain_results, TakeResult, HostInv, Numbers
  <2>4. StampsInv'
    <3>1. rel_b \in Nat /\ rel_b' \in Nat /\ pub_a \in Nat
      BY <1>n DEF Numbers
    <3>2. \A k \in rel_b' + 1 .. pub_a : k \in rel_b + 1 .. pub_a
      <4>1. rel_b' = rel_b \/ rel_b' = rel_b + 1
        BY <2>0
      <4> QED BY <3>1, <4>1, RestShrinks
    <3> QED BY <2>0, <2>1, <3>2 DEF StampsInv
  <2>5. ResultsInv'
    BY <2>0, <2>1 DEF ResultsInv
  <2> QED BY <2>1, <2>2, <2>3, <2>4, <2>5
<1>10. CASE DrainIdle
  <2>1. Inv /\ ~ Early'
    BY <1>10, <1>a DEF DrainIdle
  <2>2. CountersInv'
    BY <1>10, <2>1 DEF DrainIdle, CountersInv
  <2>3. HostInv'
    BY <1>n, <1>10, <2>1 DEF DrainIdle, HostInv, Numbers
  <2>4. StampsInv' /\ ResultsInv'
    BY <1>10, <2>1 DEF DrainIdle, StampsInv, ResultsInv
  <2> QED BY <2>1, <2>2, <2>3, <2>4
<1>11. CASE StubMap \/ StubReady \/ StubQuit
  <2>1. UNCHANGED <<shm, ready, ring_a, ring_b, seq_in, seq_out, mode, host>>
    BY <1>11, Zenon DEF StubMap, StubReady, StubQuit
  <2>2. spc \in {"start", "wait", "loop"} /\ spc' \in {"wait", "loop", "gone"}
    BY <1>11 DEF StubMap, StubReady, StubQuit
  <2>3. ready = 0 => spc' \in {"wait", "gone"} \/ spc = "loop"
    BY <1>11 DEF StubMap, StubReady, StubQuit
  <2>4. CASE Early
    BY <1>a, <2>1, <2>2, <2>3, <2>4
  <2>5. CASE ~ Early
    <3>1. CountersInv'
      BY <1>a, <2>1, <2>2, <2>5 DEF CountersInv
    <3>2. HostInv'
      BY <1>a, <2>1, <2>5 DEF HostInv
    <3>3. StampsInv' /\ ResultsInv'
      BY <1>a, <2>1, <2>5 DEF StampsInv, ResultsInv
    <3> QED BY <2>1, <2>5, <3>1, <3>2, <3>3
  <2> QED BY <2>4, <2>5
<1>12. CASE StubConsume
  <2>1. Inv /\ ~ Early'
    BY <1>12, <1>a DEF StubConsume
  <2>2. CountersInv'
    BY <1>n, <1>12, <2>1 DEF StubConsume, CountersInv, Numbers
  <2>3. HostInv' /\ StampsInv' /\ ResultsInv'
    BY <1>12, <2>1 DEF StubConsume, HostInv, StampsInv, ResultsInv
  <2> QED BY <2>1, <2>2, <2>3
<1>13. CASE StubPublish
  <2>1. Inv /\ ~ Early'
    BY <1>13, <1>a DEF StubPublish
  <2>2. pub_b' = pub_b + 1 /\ seq_out = pub_b' /\ pub_b' \in 1 .. Total
    BY <1>13, <2>1 DEF StubPublish, CountersInv, HostInv, TypeOK
  <2>3. \A k \in 1 .. pub_b' : r_seq'[k] = k
    <3>1. r_seq \in [1 .. Total -> Nat] /\ r_seq' = [r_seq EXCEPT ![pub_b'] = seq_out]
      BY <1>13 DEF StubPublish, TypeOK
    <3>2. \A k \in 1 .. pub_b : r_seq[k] = k
      BY <2>1 DEF ResultsInv
    <3>3. SUFFICES ASSUME NEW k \in 1 .. pub_b' PROVE r_seq'[k] = k
      OBVIOUS
    <3>4. k \in 1 .. Total /\ (k = pub_b' \/ k \in 1 .. pub_b)
      BY <1>n, <2>2 DEF Numbers
    <3> QED BY <2>2, <3>1, <3>2, <3>4
  <2>4. CountersInv' /\ ResultsInv'
    BY <1>n, <1>13, <2>1, <2>2, <2>3 DEF StubPublish, CountersInv, ResultsInv, Numbers
  <2>5. HostInv'
    BY <1>13, <2>1 DEF StubPublish, HostInv
  <2>6. StampsInv'
    BY <1>13, <2>1 DEF StubPublish, StampsInv, ResultsInv
  <2> QED BY <2>1, <2>4, <2>5, <2>6
<1>14. CASE StubRelease
  <2>1. Inv /\ ~ Early'
    BY <1>14, <1>a DEF StubRelease
  <2>2. CountersInv'
    BY <1>n, <1>14, <2>1 DEF StubRelease, CountersInv, Numbers
  <2>3. HostInv' /\ StampsInv' /\ ResultsInv'
    BY <1>14, <2>1 DEF StubRelease, HostInv, StampsInv, ResultsInv
  <2> QED BY <2>1, <2>2, <2>3
<1>15. CASE UNCHANGED vars
  BY <1>15, <1>a DEF vars, CountersInv, ResultsInv, HostInv, StampsInv
<1> QED
  BY <1>1, <1>2, <1>3, <1>4, <1>5, <1>6, <1>7, <1>8, <1>9, <1>10, <1>11, <1>12,
     <1>13, <1>14, <1>15 DEF Next, Host, Stub

(* The invariant of the two processes. *)
THEOREM OffloadCorrect == Spec => []OffloadInv
BY OffloadInit, OffloadNext, PTL DEF Spec

(* cpu_host and fpga_stub never spin on each other's full ring, whatever   *)
(* the capacity and however old the counters are that the host loads.      *)
THEOREM RingsDoNotBlock == Spec => []NoMutualWait
<1>1. OffloadInv => NoMutualWait
  <2> SUFFICES ASSUME OffloadInv, hpc = "publish", pub_a - rel_a >= capacity,
                      spc = "emit", pub_b - rel_b >= capacity
               PROVE  FALSE
    BY DEF NoMutualWait
  <2>1. TypeOK /\ CountersInv /\ rel_b >= tail_seen
    BY DEF OffloadInv, HostInv
  <2>2. rel_a <= tail_seen /\ pub_b = rel_a
    BY <2>1, OffloadAssumption DEF CountersInv, TypeOK
  <2> QED BY <2>1, <2>2, OffloadAssumption DEF TypeOK
<1> QED BY <1>1, OffloadCorrect, PTL

(* With twice as many slots as a ring has entries, g_send_ns gives every   *)
(* result in ring B the time its own message was sent, in wait mode.       *)
THEOREM LatencyIsPaired == Spec => []LatencyPaired
<1>1. OffloadInv => LatencyPaired
  <2> SUFFICES ASSUME OffloadInv, mode = "wait",
                      hpc \in {"loop", "drain", "publish", "final"},
                      NEW k \in rel_b + 1 .. pub_b
               PROVE  send_ns[Slot(r_seq[k])] = k
    BY DEF LatencyPaired
  <2>1. TypeOK /\ CountersInv /\ ResultsInv /\ StampsInv
    BY DEF OffloadInv
  <2>2. k \in 1 .. pub_b /\ k \in rel_b + 1 .. pub_a
    BY <2>1 DEF CountersInv, TypeOK
  <2> QED BY <2>1, <2>2 DEF ResultsInv, StampsInv
<1> QED BY <1>1, OffloadCorrect, PTL

(* run_roundtrip never ends on a result with another number. *)
THEOREM RoundtripIsMatched == Spec => []RoundtripMatches
<1>1. OffloadInv => RoundtripMatches
  BY DEF OffloadInv, HostInv, RoundtripMatches
<1> QED BY <1>1, OffloadCorrect, PTL

=============================================================================
