----------------------------- MODULE ChannelScan -----------------------------
(***************************************************************************)
(* The search for HbbTV applications in the broadcast: on a channel switch *)
(* cHbbtvDeviceStatus (status.cpp) attaches a cAitFilter (ait.cpp) to the  *)
(* device, which follows the PAT to the channel's PMT, the PMT to the AITs *)
(* and tells the browser of the applications in them; then it starts over, *)
(* so that a later change is seen as well.                                 *)
(*                                                                         *)
(* Process runs under the lock of VDR's section handler, and so do Attach, *)
(* Detach and SetStatus: each is one step.  A filter only gets sections of *)
(* the pids it has added, and only while it is on.                         *)
(***************************************************************************)
EXTENDS Integers

CONSTANTS
  Channel,
  PmtPid, AitPid,
  None,
  MaxChanges   \* bound: how often the broadcast of a channel changes

ASSUME NoneAssumption  == None \notin Channel \cup PmtPid \cup AitPid
ASSUME PidAssumption   == PmtPid \cap AitPid = {}
ASSUME BoundAssumption == MaxChanges \in Nat

Unseen  == -1
Version == 0..MaxChanges

VARIABLES
  current,     \* VDR's current channel
  switching,   \* between the two ChannelSwitch calls of one switch
  handlerOn,   \* the device's section handler is on
  service,     \* the broadcast of each channel
  attached,    \* the channel (sid) of the attached filter, or None
  on,          \* the filter's status
  filters,     \* how often it has added each pid, besides that of the PAT
  patVersion, pmtVersion, pmtPid,
  pmtNextCheck,  \* "zero", or a time "ahead" or "passed"
  announced    \* history: the last application told to the browser

env    == <<current, switching, handlerOn, service>>
known  == <<patVersion, pmtVersion, pmtNextCheck>>
vars   == <<env, attached, on, filters, pmtPid, known, announced>>

Service == [pat : Version, pmtPid : PmtPid \cup {None},
            pmt : Version, aits : SUBSET AitPid]

Init ==
  /\ current \in Channel /\ switching = FALSE /\ handlerOn = TRUE
  /\ service \in [Channel -> {s \in Service : s.pat = 0 /\ s.pmt = 0}]
  /\ attached = None /\ on = FALSE
  /\ filters = [p \in PmtPid \cup AitPid |-> 0]
  /\ patVersion = Unseen /\ pmtVersion = Unseen /\ pmtPid = None
  /\ pmtNextCheck = "zero"
  /\ announced = None

-----------------------------------------------------------------------------
\* cFilter::Add and Del.
Add(f, p) == [f EXCEPT ![p] = @ + 1]
Del(f, p) == IF p \in DOMAIN f /\ f[p] > 0 THEN [f EXCEPT ![p] = @ - 1] ELSE f

\* cAitFilter::Trigger: forget what was seen.
Trigger == /\ patVersion' = Unseen
           /\ pmtVersion' = Unseen
           /\ pmtNextCheck' = "zero"

\* SetStatus: cFilter drops the pids it has added when it is switched off.
SetStatus(b) ==
  /\ on' = b
  /\ filters' = IF on /\ ~b THEN [p \in DOMAIN filters |-> 0] ELSE filters
  /\ Trigger

\* A new filter, or none: nothing of another one is left.
Fresh(b) == /\ on' = b
            /\ filters' = [p \in DOMAIN filters |-> 0]
            /\ pmtPid' = None
            /\ Trigger
-----------------------------------------------------------------------------
\* Mutant: the filter of the old channel is only detached after the switch.
BeforeSwitchKeeps ==
  /\ ~switching
  /\ switching' = TRUE
  /\ UNCHANGED <<current, handlerOn, service, attached, on, filters, pmtPid,
                 known, announced>>

\* ChannelSwitch before the switch: detach the filter and forget it.
BeforeSwitch ==
  /\ ~switching
  /\ switching' = TRUE
  /\ attached' = None
  /\ Fresh(FALSE)
  /\ UNCHANGED <<current, handlerOn, service, announced>>

\* VDR tunes to the channel ...
Tune(ch) ==
  /\ switching
  /\ current' = ch
  /\ UNCHANGED <<switching, handlerOn, service, attached, on, filters, pmtPid,
                 known, announced>>

\* ... or fails to, and ChannelSwitch is not called a second time.
SwitchFails ==
  /\ switching
  /\ switching' = FALSE
  /\ UNCHANGED <<current, handlerOn, service, attached, on, filters, pmtPid,
                 known, announced>>

\* ChannelSwitch after it: attach a new filter.  The old one, if it is still
\* there, was detached before.  A handler that is on switches the filter on.
AfterSwitch ==
  /\ switching
  /\ switching' = FALSE
  /\ attached' = current
  /\ Fresh(handlerOn)
  /\ UNCHANGED <<current, handlerOn, service, announced>>

\* VDR stops and restarts the section handler (tuner lock lost and found).
HandlerStatus ==
  /\ handlerOn' = ~handlerOn
  /\ IF attached # None
     THEN SetStatus(handlerOn')
     ELSE UNCHANGED <<on, filters, known>>
  /\ UNCHANGED <<current, switching, service, attached, pmtPid, announced>>

\* The broadcaster moves the PMT, or changes the AITs it names.
Change(ch) ==
  /\ \/ /\ service[ch].pat < MaxChanges
        /\ \E p \in PmtPid \cup {None} :
             service' = [service EXCEPT ![ch].pat = @ + 1, ![ch].pmtPid = p]
     \/ /\ service[ch].pmt < MaxChanges
        /\ \E a \in SUBSET AitPid :
             service' = [service EXCEPT ![ch].pmt = @ + 1, ![ch].aits = a]
  /\ UNCHANGED <<current, switching, handlerOn, attached, on, filters, pmtPid,
                 known, announced>>
-----------------------------------------------------------------------------
\* cAitFilter::Process, one action per table.
Receiving == attached # None /\ on

\* Mutant: the filter for the old PMT stays.
ProcessPATKeeps ==
  /\ Receiving /\ pmtNextCheck # "ahead"
  /\ LET s == service[attached] IN
       /\ s.pat # patVersion
       /\ pmtPid' = s.pmtPid
       /\ filters' = IF s.pmtPid = None THEN filters ELSE Add(filters, s.pmtPid)
       /\ pmtNextCheck' = IF s.pmtPid = None THEN pmtNextCheck ELSE "ahead"
       /\ patVersion' = s.pat
  /\ UNCHANGED <<env, attached, on, pmtVersion, announced>>

\* A new version of the PAT: look for the PMT of the channel.
ProcessPAT ==
  /\ Receiving /\ pmtNextCheck # "ahead"
  /\ LET s == service[attached]
         f == Del(filters, pmtPid)
     IN
       /\ s.pat # patVersion
       /\ pmtPid' = s.pmtPid
       /\ filters' = IF s.pmtPid = None THEN f ELSE Add(f, s.pmtPid)
       /\ pmtNextCheck' = IF s.pmtPid = None THEN pmtNextCheck ELSE "ahead"
       /\ patVersion' = s.pat
  /\ UNCHANGED <<env, attached, on, pmtVersion, announced>>

\* The PMT on the pid the filter knows, when it looks at it.
ReceivePMT == /\ Receiving
              /\ pmtPid # None /\ service[attached].pmtPid = pmtPid
              /\ filters[pmtPid] > 0
              /\ pmtVersion = Unseen \/ pmtNextCheck # "ahead"

\* Another version than the one seen: something is wrong, scan the PAT again.
PMTChanged ==
  /\ ReceivePMT
  /\ pmtVersion \notin {Unseen, service[attached].pmt}
  /\ filters' = Del(filters, pmtPid)
  /\ Trigger
  /\ UNCHANGED <<env, attached, on, pmtPid, announced>>

\* Mutant: the scan does not start over.
ProcessPMTOnce ==
  /\ ReceivePMT
  /\ pmtVersion \in {Unseen, service[attached].pmt}
  /\ LET new == {p \in service[attached].aits : filters[p] = 0} IN
       IF new = {}
       THEN /\ pmtVersion' = service[attached].pmt
            /\ UNCHANGED <<filters, patVersion, pmtNextCheck>>
       ELSE /\ filters' = [p \in DOMAIN filters |->
                             IF p \in new THEN 1 ELSE Del(filters, pmtPid)[p]]
            /\ pmtVersion' = service[attached].pmt
            /\ UNCHANGED <<patVersion, pmtNextCheck>>
  /\ UNCHANGED <<env, attached, on, pmtPid, announced>>

\* Each AIT that is not filtered yet is added, and the scan starts over:
\* SetStatus(true) of a filter that is on only triggers it.
ProcessPMT ==
  /\ ReceivePMT
  /\ pmtVersion \in {Unseen, service[attached].pmt}
  /\ LET new == {p \in service[attached].aits : filters[p] = 0} IN
       IF new = {}
       THEN /\ pmtVersion' = service[attached].pmt
            /\ UNCHANGED <<filters, patVersion, pmtNextCheck>>
       ELSE /\ filters' = [p \in DOMAIN filters |->
                             IF p \in new THEN 1 ELSE Del(filters, pmtPid)[p]]
            /\ Trigger
  /\ UNCHANGED <<env, attached, on, pmtPid, announced>>

\* Mutant: the AIT is announced under the pid of the PMT.
AnnouncePmt(p, valid) ==
  announced' = IF valid THEN [ait |-> pmtPid, channel |-> current, from |-> attached]
                        ELSE announced

\* cAIT: the applications of an AIT go to the browser as those of the current
\* channel, unless its checksum is wrong.
Announce(p, valid) ==
  announced' = IF valid THEN [ait |-> p, channel |-> current, from |-> attached]
                        ELSE announced

\* An AIT is announced; its pid is not filtered any more.
ProcessAIT(p, valid) ==
  /\ Receiving
  /\ p \in service[attached].aits /\ filters[p] > 0
  /\ Announce(p, valid)
  /\ filters' = Del(filters, p)
  /\ pmtNextCheck' = "ahead"
  /\ UNCHANGED <<env, attached, on, pmtPid, patVersion, pmtVersion>>

\* PMT_SCAN_IDLE seconds go by.
Elapse ==
  /\ pmtNextCheck = "ahead"
  /\ pmtNextCheck' = "passed"
  /\ UNCHANGED <<env, attached, on, filters, pmtPid, patVersion, pmtVersion,
                 announced>>

Process == \/ ProcessPAT \/ PMTChanged \/ ProcessPMT
           \/ \E p \in AitPid, valid \in BOOLEAN : ProcessAIT(p, valid)

Next == \/ BeforeSwitch \/ (\E ch \in Channel : Tune(ch) \/ Change(ch))
        \/ SwitchFails \/ AfterSwitch \/ HandlerStatus \/ Process \/ Elapse

Spec == Init /\ [][Next]_vars

\* The broadcast repeats its tables, mostly without errors; time goes by.
Fairness == /\ WF_vars(Elapse)
            /\ SF_vars(ProcessPAT) /\ SF_vars(PMTChanged) /\ SF_vars(ProcessPMT)
            /\ \A p \in AitPid : SF_vars(ProcessAIT(p, TRUE))

FairSpec == Spec /\ Fairness
-----------------------------------------------------------------------------
\* The variables keep to their types.
TypeOK ==
  /\ current \in Channel /\ switching \in BOOLEAN /\ handlerOn \in BOOLEAN
  /\ service \in [Channel -> Service]
  /\ attached \in Channel \cup {None} /\ on \in BOOLEAN
  /\ filters \in [PmtPid \cup AitPid -> Nat]
  /\ patVersion \in Version \cup {Unseen} /\ pmtVersion \in Version \cup {Unseen}
  /\ pmtPid \in PmtPid \cup {None}
  /\ pmtNextCheck \in {"zero", "ahead", "passed"}
  /\ announced \in {None} \cup
       [ait : AitPid, channel : Channel, from : Channel]

\* However PAT, PMT and AIT changes, switches and restarts of the section
\* handler mix, the filter never listens to a PMT other than the one it
\* remembers, nor to any pid twice: nothing is left behind on the device.
NoFilterLeft ==
  attached # None => \A p \in PmtPid \cup AitPid :
    /\ filters[p] \in {0, 1}
    /\ p \in PmtPid /\ filters[p] > 0 => p = pmtPid

\* An application is told to the browser as that of the channel whose AIT it
\* comes from, also around a channel switch.
AnnouncedForItsChannel == announced # None => announced.channel = announced.from

\* Every AIT of the channel is read again and again, so that a change of the
\* applications is noticed: the scan never gets stuck, whatever changed before.
Scanned(p) == Receiving /\ service[attached].pmtPid # None
                /\ p \in service[attached].aits
ScanGoesOn ==
  \A p \in AitPid : []<>(~Scanned(p)) \/ []<><<ProcessAIT(p, TRUE)>>_vars
=============================================================================
