-------------------------- MODULE ChannelScanProofs --------------------------
(***************************************************************************)
(* Theorems about ChannelScan, for any channels, pids and number of        *)
(* changes: the filter leaves nothing behind on the device, and what it    *)
(* announces belongs to the channel that is on.                            *)
(***************************************************************************)
EXTENDS ChannelScan, TLAPS

Pid == PmtPid \cup AitPid

\* A filter that is attached is that of the current channel, and during a
\* switch none is.
AttachedCurrent == attached # None => ~switching /\ attached = current

IInv == TypeOK /\ NoFilterLeft /\ AttachedCurrent /\ AnnouncedForItsChannel

-----------------------------------------------------------------------------
\* Del takes one away where there is one, and touches no other pid.
LEMMA DelType ==
  ASSUME NEW f \in [Pid -> Nat], NEW q
  PROVE  /\ Del(f, q) \in [Pid -> Nat]
         /\ \A p \in Pid : p # q => Del(f, q)[p] = f[p]
         /\ \A p \in Pid : p = q => Del(f, q)[p] = IF f[p] > 0 THEN f[p] - 1 ELSE 0
  BY DEF Del

\* Del of a filter that has each pid at most once leaves it so.
LEMMA DelBits ==
  ASSUME NEW f \in [Pid -> Nat], NEW q, \A p \in Pid : f[p] \in {0, 1}
  PROVE  \A p \in Pid : Del(f, q)[p] \in {0, 1} /\ Del(f, q)[p] <= f[p]
<1> SUFFICES ASSUME NEW p \in Pid
             PROVE  Del(f, q)[p] \in {0, 1} /\ Del(f, q)[p] <= f[p]
  OBVIOUS
<1>1. CASE p = q
  <2>1. Del(f, q)[p] = IF f[p] > 0 THEN f[p] - 1 ELSE 0
    BY <1>1, DelType
  <2> QED
    BY <2>1
<1>2. CASE p # q
  <2>1. Del(f, q)[p] = f[p]
    BY <1>2, DelType
  <2> QED
    BY <2>1
<1> QED
  BY <1>1, <1>2

\* Add adds one and touches no other pid.
LEMMA AddType ==
  ASSUME NEW f \in [Pid -> Nat], NEW q \in Pid
  PROVE  /\ Add(f, q) \in [Pid -> Nat]
         /\ \A p \in Pid : p # q => Add(f, q)[p] = f[p]
         /\ Add(f, q)[q] = f[q] + 1
  BY DEF Add

\* The zero filters.
LEMMA ZeroType ==
  ASSUME NEW f \in [Pid -> Nat]
  PROVE  /\ [p \in DOMAIN f |-> 0] \in [Pid -> Nat]
         /\ \A p \in Pid : [q \in DOMAIN f |-> 0][p] = 0
  OBVIOUS

\* The invariant holds initially.
LEMMA InitIInv == Init => IInv
<1> SUFFICES ASSUME Init PROVE IInv
  OBVIOUS
<1>1. TypeOK
  <2>1. 0 \in Version
    BY BoundAssumption DEF Version
  <2> QED
    BY <2>1 DEF Init, TypeOK, Version, Unseen
<1> QED
  BY <1>1 DEF Init, IInv, NoFilterLeft, AttachedCurrent, AnnouncedForItsChannel

-----------------------------------------------------------------------------
\* Trigger keeps the versions in their types.
LEMMA TriggerType ==
  Trigger => /\ patVersion' \in Version \cup {Unseen}
             /\ pmtVersion' \in Version \cup {Unseen}
             /\ pmtNextCheck' \in {"zero", "ahead", "passed"}
  BY DEF Trigger

\* The steps of the channel switch.
LEMMA SwitchStep ==
  ASSUME IInv, BeforeSwitch \/ SwitchFails \/ AfterSwitch PROVE IInv'
<1> USE DEF IInv, Pid
<1>1. ASSUME NEW b \in BOOLEAN, Fresh(b)
      PROVE  /\ filters' \in [Pid -> Nat] /\ \A p \in Pid : filters'[p] = 0
             /\ on' = b /\ pmtPid' = None /\ Trigger
  BY <1>1, ZeroType DEF Fresh, TypeOK
<1>2. CASE BeforeSwitch
  <2>1. /\ attached' = None /\ switching' = TRUE /\ Fresh(FALSE)
        /\ UNCHANGED <<current, handlerOn, service, announced>>
    BY <1>2 DEF BeforeSwitch
  <2>2. TypeOK'
    BY <2>1, <1>1, TriggerType DEF TypeOK
  <2> QED
    BY <2>1, <2>2 DEF NoFilterLeft, AttachedCurrent, AnnouncedForItsChannel
<1>3. CASE AfterSwitch
  <2>1. /\ attached' = current /\ switching' = FALSE /\ Fresh(handlerOn)
        /\ UNCHANGED <<current, handlerOn, service, announced>>
    BY <1>3 DEF AfterSwitch
  <2>2. handlerOn \in BOOLEAN
    BY DEF TypeOK
  <2>3. TypeOK'
    BY <2>1, <2>2, <1>1, TriggerType DEF TypeOK
  <2>4. NoFilterLeft'
    BY <2>1, <2>2, <1>1 DEF NoFilterLeft
  <2> QED
    BY <2>1, <2>3, <2>4 DEF AttachedCurrent, AnnouncedForItsChannel
<1>4. CASE SwitchFails
  <2>1. /\ switching /\ switching' = FALSE
        /\ UNCHANGED <<current, handlerOn, service, attached, on, filters, pmtPid,
                       known, announced>>
    BY <1>4 DEF SwitchFails
  <2> QED
    BY <2>1 DEF known, TypeOK, NoFilterLeft, AttachedCurrent, AnnouncedForItsChannel
<1> QED
  BY <1>2, <1>3, <1>4

\* The steps of VDR and of the broadcaster.
LEMMA EnvStep ==
  ASSUME IInv,
         HandlerStatus \/ Elapse \/ (\E ch \in Channel : Tune(ch) \/ Change(ch))
  PROVE  IInv'
<1> USE DEF IInv, Pid
<1>1. ASSUME NEW ch \in Channel, Tune(ch) PROVE IInv'
  <2>1. /\ current' = ch /\ switching
        /\ UNCHANGED <<switching, handlerOn, service, attached, on, filters,
                       pmtPid, known, announced>>
    BY <1>1 DEF Tune
  <2> QED
    BY <2>1 DEF known, TypeOK, NoFilterLeft, AttachedCurrent, AnnouncedForItsChannel
<1>2. ASSUME NEW ch \in Channel, Change(ch) PROVE IInv'
  <2>1. UNCHANGED <<current, switching, handlerOn, attached, on, filters, pmtPid,
                    known, announced>>
    BY <1>2 DEF Change
  <2>2. service' \in [Channel -> Service]
    <3>0. service \in [Channel -> Service] /\ service[ch] \in Service
      BY DEF TypeOK
    <3>1. ASSUME NEW p \in PmtPid \cup {None}, service[ch].pat < MaxChanges,
                 service' = [service EXCEPT ![ch].pat = @ + 1, ![ch].pmtPid = p]
          PROVE  service' \in [Channel -> Service]
      <4> DEFINE r == [service[ch] EXCEPT !.pat = @ + 1, !.pmtPid = p]
      <4>0. service[ch].pat \in Version /\ service[ch].pat + 1 \in Version
        BY <3>0, <3>1, BoundAssumption DEF Service, Version
      <4>1. r \in Service
        BY <3>0, <3>1, <4>0 DEF Service
      <4>2. service' = [service EXCEPT ![ch] = r]
        BY <3>0, <3>1
      <4> QED
        BY <3>0, <4>1, <4>2
    <3>2. ASSUME NEW a \in SUBSET AitPid, service[ch].pmt < MaxChanges,
                 service' = [service EXCEPT ![ch].pmt = @ + 1, ![ch].aits = a]
          PROVE  service' \in [Channel -> Service]
      <4> DEFINE r == [service[ch] EXCEPT !.pmt = @ + 1, !.aits = a]
      <4>0. service[ch].pmt \in Version /\ service[ch].pmt + 1 \in Version
        BY <3>0, <3>2, BoundAssumption DEF Service, Version
      <4>1. r \in Service
        BY <3>0, <3>2, <4>0 DEF Service
      <4>2. service' = [service EXCEPT ![ch] = r]
        BY <3>0, <3>2
      <4> QED
        BY <3>0, <4>1, <4>2
    <3> QED
      BY <1>2, <3>1, <3>2 DEF Change
  <2> QED
    BY <2>1, <2>2
       DEF known, TypeOK, NoFilterLeft, AttachedCurrent, AnnouncedForItsChannel
<1>3. ASSUME HandlerStatus PROVE IInv'
  <2>1. /\ handlerOn' = ~handlerOn
        /\ UNCHANGED <<current, switching, service, attached, pmtPid, announced>>
    BY <1>3 DEF HandlerStatus
  <2>2. /\ filters' \in [Pid -> Nat]
        /\ filters' = filters \/ \A p \in Pid : filters'[p] = 0
        /\ on' \in BOOLEAN
        /\ Trigger \/ UNCHANGED known
    <3>1. CASE attached # None
      BY <1>3, <3>1, ZeroType DEF HandlerStatus, SetStatus, TypeOK
    <3>2. CASE attached = None
      BY <1>3, <3>2 DEF HandlerStatus, TypeOK
    <3> QED
      BY <3>1, <3>2
  <2>3. TypeOK'
    BY <2>1, <2>2, TriggerType DEF TypeOK, known
  <2>4. NoFilterLeft'
    BY <2>1, <2>2 DEF NoFilterLeft
  <2> QED
    BY <2>1, <2>3, <2>4 DEF AttachedCurrent, AnnouncedForItsChannel
<1>4. ASSUME Elapse PROVE IInv'
  BY <1>4
     DEF Elapse, env, TypeOK, NoFilterLeft, AttachedCurrent, AnnouncedForItsChannel
<1> QED
  BY <1>1, <1>2, <1>3, <1>4

-----------------------------------------------------------------------------
\* The sections: what they do to the filters.
LEMMA ProcessStep == ASSUME IInv, Process PROVE IInv'
<1> USE DEF IInv, Pid
<1>0. /\ attached # None /\ attached = current /\ attached \in Channel
      /\ service[attached] \in Service /\ filters \in [Pid -> Nat]
      /\ \A p \in Pid : filters[p] \in {0, 1}
      /\ \A p \in PmtPid : filters[p] > 0 => p = pmtPid
      /\ UNCHANGED <<env, attached, on>>
  BY DEF Process, ProcessPAT, PMTChanged, ProcessPMT, ProcessAIT, ReceivePMT,
         Receiving, TypeOK, NoFilterLeft, AttachedCurrent
<1>1. CASE ProcessPAT
  <2> DEFINE s == service[attached]
             f == Del(filters, pmtPid)
  <2>1. /\ pmtPid' = s.pmtPid /\ s.pmtPid \in PmtPid \cup {None}
        /\ filters' = IF s.pmtPid = None THEN f ELSE Add(f, s.pmtPid)
        /\ pmtNextCheck' \in {"zero", "ahead", "passed"}
        /\ patVersion' \in Version
        /\ UNCHANGED <<pmtVersion, announced>>
    BY <1>0, <1>1 DEF ProcessPAT, TypeOK, Service
  <2>2. /\ f \in [Pid -> Nat] /\ \A p \in AitPid : f[p] \in {0, 1}
        /\ \A p \in PmtPid : f[p] = 0
    <3>1. f \in [Pid -> Nat]
      BY <1>0, DelType
    <3>2. ASSUME NEW p \in Pid PROVE f[p] \in {0, 1} /\ (p \in PmtPid => f[p] = 0)
      <4>1. CASE p = pmtPid
        <5>1. f[p] = IF filters[p] > 0 THEN filters[p] - 1 ELSE 0
          BY <1>0, <4>1, DelType
        <5> QED
          BY <1>0, <5>1
      <4>2. CASE p # pmtPid
        <5>1. f[p] = filters[p]
          BY <1>0, <4>2, DelType
        <5>2. filters[p] \in {0, 1}
          BY <1>0
        <5> QED
          BY <1>0, <4>2, <5>1, <5>2
      <4> QED
        BY <4>1, <4>2
    <3> QED
      BY <3>1, <3>2
  <2>3. /\ filters' \in [Pid -> Nat]
        /\ \A p \in Pid : /\ filters'[p] \in {0, 1}
                          /\ p \in PmtPid /\ filters'[p] > 0 => p = pmtPid'
    <3> HIDE DEF s, f
    <3>1. CASE s.pmtPid = None
      BY <2>1, <2>2, <3>1
    <3>2. CASE s.pmtPid # None
      <4>1. s.pmtPid \in PmtPid
        BY <2>1, <3>2
      <4>2. /\ Add(f, s.pmtPid) \in [Pid -> Nat]
            /\ \A p \in Pid : p # s.pmtPid => Add(f, s.pmtPid)[p] = f[p]
            /\ Add(f, s.pmtPid)[s.pmtPid] = f[s.pmtPid] + 1
        BY <2>2, <4>1, AddType
      <4> QED
        BY <2>1, <2>2, <3>2, <4>1, <4>2
    <3> QED
      BY <3>1, <3>2
  <2> QED
    BY <1>0, <2>1, <2>3
       DEF env, TypeOK, NoFilterLeft, AttachedCurrent, AnnouncedForItsChannel
<1>2. CASE PMTChanged
  <2>1. filters' = Del(filters, pmtPid) /\ Trigger /\ UNCHANGED <<pmtPid, announced>>
    BY <1>2 DEF PMTChanged
  <2>2. filters' \in [Pid -> Nat]
    BY <1>0, <2>1, DelType
  <2>3. \A p \in Pid : filters'[p] \in {0, 1} /\ filters'[p] <= filters[p]
    BY <1>0, <2>1, DelBits
  <2>4. NoFilterLeft'
    BY <1>0, <2>1, <2>3 DEF NoFilterLeft
  <2> QED
    BY <1>0, <2>1, <2>2, <2>4, TriggerType
       DEF env, TypeOK, AttachedCurrent, AnnouncedForItsChannel
<1>3. CASE ProcessPMT
  <2> DEFINE new == {p \in service[attached].aits : filters[p] = 0}
  <2>1. UNCHANGED <<pmtPid, announced>> /\ service[attached].aits \subseteq AitPid
        /\ service[attached].pmt \in Version
    BY <1>0, <1>3 DEF ProcessPMT, Service
  <2>2. CASE new = {}
    BY <1>0, <1>3, <2>1, <2>2
       DEF ProcessPMT, env, TypeOK, NoFilterLeft, AttachedCurrent, AnnouncedForItsChannel
  <2>3. CASE new # {}
    <3>1. /\ filters' = [p \in DOMAIN filters |->
                          IF p \in new THEN 1 ELSE Del(filters, pmtPid)[p]]
          /\ Trigger
      BY <1>3, <2>3 DEF ProcessPMT
    <3>2. /\ Del(filters, pmtPid) \in [Pid -> Nat]
          /\ \A p \in Pid : /\ Del(filters, pmtPid)[p] \in {0, 1}
                            /\ Del(filters, pmtPid)[p] <= filters[p]
      BY <1>0, DelType, DelBits
    <3>3. new \cap PmtPid = {}
      BY <2>1, PidAssumption
    <3>4. filters' \in [Pid -> Nat]
      BY <1>0, <3>1, <3>2
    <3>5. \A p \in Pid : /\ filters'[p] \in {0, 1}
                         /\ p \in PmtPid => filters'[p] <= filters[p]
      BY <1>0, <3>1, <3>2, <3>3
    <3>6. NoFilterLeft'
      BY <1>0, <2>1, <3>5 DEF NoFilterLeft
    <3> QED
      BY <1>0, <2>1, <3>1, <3>4, <3>6, TriggerType
         DEF env, TypeOK, AttachedCurrent, AnnouncedForItsChannel
  <2> QED
    BY <2>2, <2>3
<1>4. ASSUME NEW q \in AitPid, NEW valid \in BOOLEAN, ProcessAIT(q, valid)
      PROVE  IInv'
  <2>1. filters' = Del(filters, q) /\ pmtNextCheck' = "ahead"
        /\ UNCHANGED <<pmtPid, patVersion, pmtVersion>>
    BY <1>4 DEF ProcessAIT
  <2>2. announced' = announced
          \/ announced' = [ait |-> q, channel |-> current, from |-> attached]
    BY <1>4 DEF ProcessAIT, Announce
  <2>3. filters' \in [Pid -> Nat]
    BY <1>0, <2>1, DelType
  <2>4. \A p \in Pid : filters'[p] \in {0, 1} /\ filters'[p] <= filters[p]
    BY <1>0, <2>1, DelBits
  <2>5. NoFilterLeft'
    BY <1>0, <2>1, <2>4 DEF NoFilterLeft
  <2>6. announced' \in {None} \cup [ait : AitPid, channel : Channel, from : Channel]
        /\ AnnouncedForItsChannel'
    BY <1>0, <2>2 DEF TypeOK, AnnouncedForItsChannel
  <2> QED
    BY <1>0, <2>1, <2>3, <2>5, <2>6 DEF env, TypeOK, AttachedCurrent
<1> QED
  BY <1>1, <1>2, <1>3, <1>4 DEF Process

\* No step breaks the invariant.
LEMMA StepIInv == IInv /\ [Next]_vars => IInv'
<1> SUFFICES ASSUME IInv, [Next]_vars PROVE IInv'
  OBVIOUS
<1>1. CASE UNCHANGED vars
  BY <1>1 DEF vars, env, known, IInv, TypeOK, NoFilterLeft, AttachedCurrent,
              AnnouncedForItsChannel
<1>2. CASE Next
  BY <1>2, SwitchStep, EnvStep, ProcessStep DEF Next
<1> QED
  BY <1>1, <1>2

\* The invariant the others follow from.
THEOREM ScanInvariant == Spec => []IInv
  BY InitIInv, StepIInv, PTL DEF Spec

\* The variables keep to their types.
THEOREM ScanTypeCorrect == Spec => []TypeOK
<1>1. IInv => TypeOK
  BY DEF IInv
<1> QED
  BY <1>1, ScanInvariant, PTL

\* The filter leaves no pid behind on the device.
THEOREM NoFilterStays == Spec => []NoFilterLeft
<1>1. IInv => NoFilterLeft
  BY DEF IInv
<1> QED
  BY <1>1, ScanInvariant, PTL

\* An application is announced as that of the channel it comes from.
THEOREM AnnouncementsFit == Spec => []AnnouncedForItsChannel
<1>1. IInv => AnnouncedForItsChannel
  BY DEF IInv
<1> QED
  BY <1>1, ScanInvariant, PTL
=============================================================================
