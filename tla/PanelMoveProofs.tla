--------------------------- MODULE PanelMoveProofs ---------------------------
(***************************************************************************)
(* The safety properties of PanelMove, for any set of names and any number *)
(* of changes, retirements, upgrades and faults.                           *)
(*                                                                         *)
(* What the panel comes up on is a function of the disk, ResolveDomains,   *)
(* and the argument is about its value at every moment: it has the names   *)
(* last asked for, and it serves every name in use, as the process that    *)
(* runs does until it is restarted.                                        *)
(***************************************************************************)
EXTENDS PanelMove, TLAPS

-----------------------------------------------------------------------------
(* Types *)

\* A record with names in it has the panel's, unless nothing was saved yet, and
\* does not move the hosts from the name they are to have.
WellFormed(d) ==
  /\ d \in PanelDomains
  /\ d.FlagDomain # None => d.Domain # None
  /\ d.MoveHostFrom # None => d.MoveHostFrom # d.Domain

DiskTyped ==
  /\ WellFormed(saved)
  /\ unit \in Names \X Name /\ panelEnv \in Names \X Name
  /\ certs \subseteq dns /\ dns \subseteq Names /\ certLink \in [Pems -> certs]
  /\ host \in [Records -> Names]

PanelTyped ==
  /\ WellFormed(domains) /\ latest \in PanelDomains /\ (latest.FlagDomain # None => latest.Domain # None)
  /\ panel \in {"down", "starting", "serving", "leaving"}
  /\ panel # "down" => domains.Domain # None
  /\ finisher \in {"none", "failed", "waiting", "read", "save"} \union Records
  /\ finisher # "none" => Serving /\ domains.MoveHostFrom # None

NodeTyped ==
  /\ nodeUp \in BOOLEAN /\ unmoved \in BOOLEAN
  /\ url \in Names /\ env \in Names /\ conn \in {url, None}
  /\ move \in {"idle", "told", "probed", "written"} /\ told \in Name \ {url}
  /\ told = None <=> move = "idle"
  /\ ~nodeUp => conn = None /\ move = "idle"

AdminTyped ==
  /\ wanted \in Names \X Name /\ links \subseteq Names
  /\ changes \in 0..MaxChanges /\ upgrades \in 0..MaxUpgrades /\ faults \in 0..MaxFaults

Typed == DiskTyped /\ PanelTyped /\ NodeTyped /\ AdminTyped

-----------------------------------------------------------------------------
(* A change sticks *)

Called(d) == <<d.Domain, d.SubDomain>>
FlagsOf(d) == <<d.FlagDomain, d.FlagSub>>

\* But for the name hosts are to be moved from, which FinishDomainMove clears.
Alike(d, e) == [d EXCEPT !.MoveHostFrom = None] = [e EXCEPT !.MoveHostFrom = None]

\* The disk says what was last asked for, whichever of the three places is believed;
\* and the process still stands on the unit it was started from.
Sticks ==
  /\ Called(ResolveDomains) = wanted /\ wanted[1] # wanted[2]
  /\ panelEnv \in {unit, wanted}
  /\ panel # "down" => unit \in {FlagsOf(domains), Called(domains)}
  /\ panel \in {"starting", "serving"} => Alike(domains, ResolveDomains)
  /\ finisher = "save" => latest = saved

-----------------------------------------------------------------------------
(* A name keeps its job *)

\* The node's address in memory and in node.env, and one it has tried and is
\* about to use.
InUse == {url, env} \union (IF move \in {"probed", "written"} THEN {told} ELSE {})

\* Where links were handed out: the origin now, and what were subscription names.
LinksOf(d) == {Origin(d)} \union d.OldSub

NodeSteady ==
  /\ move = "written" => env = told
  /\ nodeUp /\ move # "written" => env = url
  /\ conn # None => Serving
  /\ conn # None /\ move # "idle" => told = domains.Domain

\* The names in use are served by what the panel comes up on and by what runs.  A
\* panel about to restart keeps every name it has, or the node is on the one that stays.
KeepsNames ==
  /\ InUse \subseteq NodeNames(ResolveDomains) \intersect certs
  /\ links \subseteq LinksOf(ResolveDomains)
  /\ panel # "down" => InUse \subseteq NodeNames(domains) /\ links \subseteq LinksOf(domains)
  /\ panel = "leaving" =>
       \/ NodeNames(domains) \subseteq NodeNames(ResolveDomains)
       \/ url = domains.Domain /\ env = url /\ move = "idle"

-----------------------------------------------------------------------------
(* The records of names *)

LEMMA FieldsOf ==
  ASSUME NEW d \in PanelDomains
  PROVE  /\ d.Domain \in Name /\ d.SubDomain \in Name /\ d.FlagDomain \in Name /\ d.FlagSub \in Name
         /\ d.OldPanel \subseteq Names /\ d.OldSub \subseteq Names /\ d.MoveHostFrom \in Name
         /\ d = [Domain |-> d.Domain, SubDomain |-> d.SubDomain, FlagDomain |-> d.FlagDomain,
                 FlagSub |-> d.FlagSub, OldPanel |-> d.OldPanel, OldSub |-> d.OldSub,
                 MoveHostFrom |-> d.MoveHostFrom]
  BY DEF PanelDomains

LEMMA FlagsFields ==
  ASSUME NEW n, NEW s
  PROVE  /\ Called(Flags(n, s)) = <<n, s>> /\ FlagsOf(Flags(n, s)) = <<n, s>>
         /\ Flags(n, s).Domain = n /\ Flags(n, s).SubDomain = s
         /\ Flags(n, s).FlagDomain = n /\ Flags(n, s).FlagSub = s
         /\ Flags(n, s).OldPanel = {} /\ Flags(n, s).OldSub = {} /\ Flags(n, s).MoveHostFrom = None
  BY DEF Flags, Called, FlagsOf

LEMMA FlagsTyped ==
  ASSUME NEW n \in Name, NEW s \in Name PROVE WellFormed(Flags(n, s))
  BY DEF Flags, WellFormed, PanelDomains, Name

LEMMA UnsavedTyped == WellFormed(Unsaved) /\ Unsaved.Domain = None /\ Unsaved.FlagDomain = None
  BY FlagsTyped, FlagsFields DEF Unsaved, Name

\* What a change made on the settings page saves.
LEMMA ChangeFields ==
  ASSUME NEW d \in PanelDomains, NEW n \in Names, NEW s \in Name
  PROVE  /\ changeDomains(d, n, s).Domain = n /\ changeDomains(d, n, s).SubDomain = s
         /\ changeDomains(d, n, s).FlagDomain = d.FlagDomain /\ changeDomains(d, n, s).FlagSub = d.FlagSub
         /\ changeDomains(d, n, s).OldPanel =
              (d.OldPanel \union (IF n # d.Domain THEN {d.Domain} ELSE {})) \ {n, s}
         /\ changeDomains(d, n, s).OldSub =
              (d.OldSub \union {x \in Names : \/ x = d.Domain /\ n # d.Domain /\ d.SubDomain = None
                                              \/ x = d.SubDomain /\ x # s}) \ {n, s}
<1> DEFINE moves == n # d.Domain
           oldPanel == IF moves THEN {d.Domain} ELSE {}
           oldSub   == {x \in Names : \/ x = d.Domain /\ moves /\ d.SubDomain = None
                                      \/ x = d.SubDomain /\ x # s}
           from     == IF moves /\ d.MoveHostFrom = None THEN d.Domain ELSE d.MoveHostFrom
           e        == [d EXCEPT !.Domain = n, !.SubDomain = s,
                                 !.OldPanel = (@ \union oldPanel) \ {n, s},
                                 !.OldSub = (@ \union oldSub) \ {n, s},
                                 !.MoveHostFrom = IF from = n THEN None ELSE from]
<1>1. changeDomains(d, n, s) = e
  BY DEF changeDomains
<1>2. /\ e.Domain = n /\ e.SubDomain = s /\ e.FlagDomain = d.FlagDomain /\ e.FlagSub = d.FlagSub
      /\ e.OldPanel = (d.OldPanel \union oldPanel) \ {n, s}
      /\ e.OldSub = (d.OldSub \union oldSub) \ {n, s}
  <2> HIDE DEF oldPanel, oldSub, from
  <2> QED
    BY DEF PanelDomains
<1> QED
  BY <1>1, <1>2

LEMMA ChangeTyped ==
  ASSUME NEW d, WellFormed(d), d.Domain # None, NEW n \in Names, NEW s \in Name
  PROVE  WellFormed(changeDomains(d, n, s))
<1> DEFINE e == changeDomains(d, n, s)
           from == IF n # d.Domain /\ d.MoveHostFrom = None THEN d.Domain ELSE d.MoveHostFrom
<1>1. d \in PanelDomains /\ d.Domain \in Names /\ from \in Name
  BY FieldsOf DEF WellFormed, Name
<1>2. /\ e.MoveHostFrom = IF from = n THEN None ELSE from
      /\ e = [d EXCEPT !.Domain = n, !.SubDomain = s, !.OldPanel = e.OldPanel, !.OldSub = e.OldSub,
                       !.MoveHostFrom = e.MoveHostFrom]
  BY <1>1 DEF changeDomains, PanelDomains
<1>3. e.OldPanel \subseteq Names /\ e.OldSub \subseteq Names /\ e.Domain = n
  BY <1>1, ChangeFields, FieldsOf
<1>4. e.MoveHostFrom \in Name /\ e.MoveHostFrom # n
  BY <1>1, <1>2, PanelMoveAssumption DEF Name
<1> HIDE DEF e, from
<1>5. e \in PanelDomains
  BY <1>1, <1>2, <1>3, <1>4 DEF PanelDomains, Name
<1>6. n # None
  BY PanelMoveAssumption
<1> QED
  BY <1>3, <1>4, <1>5, <1>6 DEF WellFormed, e

\* What retiring the old names saves, and what FinishDomainMove does.
LEMMA RetireFields ==
  ASSUME NEW d \in PanelDomains
  PROVE  /\ [d EXCEPT !.OldPanel = {}, !.OldSub = {}] \in PanelDomains
         /\ [d EXCEPT !.OldPanel = {}, !.OldSub = {}].OldPanel = {}
         /\ [d EXCEPT !.OldPanel = {}, !.OldSub = {}].OldSub = {}
         /\ [d EXCEPT !.OldPanel = {}, !.OldSub = {}].Domain = d.Domain
         /\ [d EXCEPT !.OldPanel = {}, !.OldSub = {}].SubDomain = d.SubDomain
         /\ [d EXCEPT !.OldPanel = {}, !.OldSub = {}].FlagDomain = d.FlagDomain
         /\ [d EXCEPT !.OldPanel = {}, !.OldSub = {}].FlagSub = d.FlagSub
         /\ [d EXCEPT !.OldPanel = {}, !.OldSub = {}].MoveHostFrom = d.MoveHostFrom
  BY DEF PanelDomains

LEMMA SettleFields ==
  ASSUME NEW d \in PanelDomains
  PROVE  /\ [d EXCEPT !.MoveHostFrom = None] \in PanelDomains
         /\ [d EXCEPT !.MoveHostFrom = None].OldPanel = d.OldPanel
         /\ [d EXCEPT !.MoveHostFrom = None].OldSub = d.OldSub
         /\ [d EXCEPT !.MoveHostFrom = None].Domain = d.Domain
         /\ [d EXCEPT !.MoveHostFrom = None].SubDomain = d.SubDomain
         /\ [d EXCEPT !.MoveHostFrom = None].FlagDomain = d.FlagDomain
         /\ [d EXCEPT !.MoveHostFrom = None].FlagSub = d.FlagSub
         /\ [d EXCEPT !.MoveHostFrom = None].MoveHostFrom = None
  BY DEF PanelDomains, Name

\* The names the panel comes up on, whatever the disk says.
LEMMA Resolved ==
  ASSUME DiskTyped PROVE WellFormed(ResolveDomains) /\ ResolveDomains.Domain \in Names
<1>1. /\ unit = <<unit[1], unit[2]>> /\ unit[1] \in Names /\ unit[2] \in Name
      /\ unit[1] # None
  BY PanelMoveAssumption DEF DiskTyped
<1>2. CASE ResolveDomains = saved
  <2>1. CASE unit = <<saved.FlagDomain, saved.FlagSub>> \/ unit = <<saved.Domain, saved.SubDomain>>
    <3>1. unit[1] = saved.FlagDomain \/ unit[1] = saved.Domain
      BY <2>1
    <3>2. saved.Domain # None
      BY <1>1, <3>1 DEF DiskTyped, WellFormed
    <3> QED
      BY <1>2, <3>2, FieldsOf DEF DiskTyped, WellFormed, Name
  <2>2. CASE ~(unit = <<saved.FlagDomain, saved.FlagSub>> \/ unit = <<saved.Domain, saved.SubDomain>>)
    <3>1. ResolveDomains = Flags(unit[1], unit[2])
      BY <2>2 DEF ResolveDomains
    <3> QED
      BY <1>1, <3>1, FlagsTyped, FlagsFields DEF Name
  <2> QED
    BY <2>1, <2>2
<1>3. CASE ResolveDomains = Flags(unit[1], unit[2])
  BY <1>1, <1>3, FlagsTyped, FlagsFields DEF Name
<1> QED
  BY <1>2, <1>3 DEF ResolveDomains

-----------------------------------------------------------------------------
(* Every step keeps the types *)

LEMMA TypedInit == Init => Typed
<1> SUFFICES ASSUME Init PROVE Typed
  OBVIOUS
<1> PICK s \in Name \ {First} :
      /\ saved = Unsaved /\ unit = <<First, s>> /\ panelEnv = unit
      /\ certs = Served(Flags(First, s)) /\ certLink = [f \in Pems |-> First]
      /\ host = [r \in Records |-> First]
      /\ panel = "serving" /\ domains = Flags(First, s) /\ finisher = "none" /\ latest = Unsaved
      /\ dns = certs
      /\ nodeUp = TRUE /\ url = First /\ env = First /\ conn = First /\ told = None /\ move = "idle" /\ unmoved = FALSE
      /\ wanted = unit /\ links = {Origin(domains)}
      /\ changes = 0 /\ upgrades = 0 /\ faults = 0
  BY DEF Init
<1>1. First \in Names /\ First \in Name /\ First # None
  BY PanelMoveAssumption DEF Name
<1>2. certs = {First, s} \ {None}
  BY <1>1, FlagsFields DEF Served, Old
<1>3. DiskTyped
  BY <1>1, <1>2, UnsavedTyped DEF DiskTyped, Name
<1>4. /\ WellFormed(domains) /\ domains.Domain = First
      /\ latest \in PanelDomains /\ latest.FlagDomain = None
  BY <1>1, FlagsTyped, FlagsFields, UnsavedTyped DEF WellFormed
<1>5. PanelTyped
  BY <1>1, <1>4 DEF PanelTyped
<1>6. NodeTyped
  BY <1>1 DEF NodeTyped, Name
<1>7. Origin(domains) \in Names
  BY <1>1, FlagsFields DEF Origin, Name
<1>8. AdminTyped
  BY <1>1, <1>7, PanelMoveAssumption DEF AdminTyped
<1> QED
  BY <1>3, <1>5, <1>6, <1>8 DEF Typed

\* What is left alone keeps its types.
LEMMA DiskStays == ASSUME DiskTyped, UNCHANGED <<diskVars, dns>> PROVE DiskTyped'
  BY DEF DiskTyped, WellFormed, diskVars
LEMMA NodeStays == ASSUME NodeTyped, UNCHANGED nodeVars PROVE NodeTyped'
  BY DEF NodeTyped, nodeVars
LEMMA AdminStays ==
  ASSUME AdminTyped, UNCHANGED <<wanted, links, changes, upgrades>>, faults' = faults \/ faults' \in 0..MaxFaults
  PROVE  AdminTyped'
  BY DEF AdminTyped
LEMMA PanelStays == ASSUME PanelTyped, UNCHANGED panelVars PROVE PanelTyped'
  BY DEF PanelTyped, WellFormed, panelVars, Serving

LEMMA OneMoreFault ==
  ASSUME AdminTyped, faults < MaxFaults, faults' = faults + 1 PROVE faults' \in 0..MaxFaults
  BY PanelMoveAssumption DEF AdminTyped

LEMMA GoneTyped ==
  ASSUME PanelTyped, NodeTyped, Gone, UNCHANGED <<nodeUp, url, env, told, move, unmoved>>
  PROVE  PanelTyped' /\ NodeTyped'
<1>1. PanelTyped'
  BY UnsavedTyped DEF Gone, PanelTyped, WellFormed
<1>2. NodeTyped'
  BY DEF Gone, NodeTyped
<1> QED
  BY <1>1, <1>2

LEMMA FormsTyped ==
  ASSUME Typed,
         (\E n \in Names, s \in Name, skip_dns \in BOOLEAN : postDomain(n, s, skip_dns)) \/ postRetireOldDomains
  PROVE  Typed'
<1> USE DEF Typed
<1>1. ASSUME NEW n \in Names, NEW s \in Name, NEW skip_dns \in BOOLEAN, postDomain(n, s, skip_dns) PROVE Typed'
  <2>1. /\ saved' = changeDomains(domains, n, s) /\ panelEnv' \in {panelEnv, <<n, s>>}
        /\ UNCHANGED <<unit, certs, certLink, host, domains, finisher, latest, dns, links, upgrades>>
        /\ UNCHANGED nodeVars
        /\ panel' = "leaving" /\ Serving /\ wanted' = <<n, s>>
        /\ changes < MaxChanges /\ changes' = changes + 1
        /\ faults' = faults \/ (faults < MaxFaults /\ faults' = faults + 1)
    BY <1>1 DEF postDomain, Fault
  <2>2. WellFormed(saved')
    BY <2>1, ChangeTyped DEF PanelTyped, Serving
  <2>3. DiskTyped'
    BY <2>1, <2>2 DEF DiskTyped, WellFormed
  <2>4. PanelTyped'
    BY <2>1 DEF PanelTyped, WellFormed, Serving
  <2>5. AdminTyped'
    BY <2>1, PanelMoveAssumption DEF AdminTyped
  <2> QED
    BY <2>1, <2>3, <2>4, <2>5, NodeStays
<1>2. CASE postRetireOldDomains
  <2>1. /\ saved' = [domains EXCEPT !.OldPanel = {}, !.OldSub = {}]
        /\ UNCHANGED <<unit, panelEnv, certs, certLink, host, domains, finisher, latest, dns, wanted, upgrades, faults>>
        /\ UNCHANGED nodeVars
        /\ panel' = "leaving" /\ Serving /\ links' = links \ Old(domains)
        /\ changes < MaxChanges /\ changes' = changes + 1
    BY <1>2 DEF postRetireOldDomains
  <2>2. WellFormed(saved')
    BY <2>1, RetireFields DEF PanelTyped, WellFormed
  <2>3. DiskTyped'
    BY <2>1, <2>2 DEF DiskTyped, WellFormed
  <2>4. PanelTyped'
    BY <2>1 DEF PanelTyped, WellFormed, Serving
  <2>5. AdminTyped'
    BY <2>1, PanelMoveAssumption DEF AdminTyped
  <2> QED
    BY <2>1, <2>3, <2>4, <2>5, NodeStays
<1> QED
  BY <1>1, <1>2

LEMMA PanelStepsTyped ==
  ASSUME Typed, PanelSteps \/ PanelStops \/ Upgrade PROVE Typed'
<1> USE DEF Typed
<1>1. CASE PanelRestarts
  BY <1>1, GoneTyped, DiskStays, AdminStays DEF PanelRestarts, adminVars, countVars
<1>2. CASE PanelStops
  BY <1>2, GoneTyped, DiskStays, AdminStays, OneMoreFault DEF PanelStops, Fault, adminVars
<1>3. CASE Upgrade
  <2>1. PanelTyped' /\ NodeTyped'
    BY <1>3, GoneTyped DEF Upgrade
  <2>2. DiskTyped'
    BY <1>3 DEF Upgrade, DiskTyped, WellFormed
  <2>3. AdminTyped'
    BY <1>3, PanelMoveAssumption DEF Upgrade, AdminTyped, adminVars
  <2> QED
    BY <2>1, <2>2, <2>3
<1>4. CASE PanelStarts
  <2>1. WellFormed(domains') /\ domains'.Domain # None
    <3>1. domains' = ResolveDomains \/ domains' = Flags(unit[1], unit[2])
      BY <1>4 DEF PanelStarts
    <3>2. unit[1] \in Names /\ unit[2] \in Name
      BY DEF DiskTyped
    <3> QED
      BY <3>1, <3>2, Resolved, FlagsTyped, FlagsFields, PanelMoveAssumption DEF Name
  <2>2. finisher = "none"
    BY <1>4 DEF PanelStarts, PanelTyped, Serving
  <2>3. PanelTyped'
    BY <1>4, <2>1, <2>2 DEF PanelStarts, PanelTyped, WellFormed
  <2>4. faults' = faults \/ faults' \in 0..MaxFaults
    BY <1>4, OneMoreFault DEF PanelStarts, Unread, Fault
  <2> QED
    BY <1>4, <2>3, <2>4, DiskStays, NodeStays, AdminStays DEF PanelStarts, adminVars
<1>5. CASE PanelServes
  <2>1. PanelTyped'
    BY <1>5 DEF PanelServes, PanelTyped, WellFormed, Serving
  <2>2. Origin(domains) \in Names
    BY <1>5, FieldsOf DEF PanelServes, PanelTyped, WellFormed, Origin, Name
  <2>3. AdminTyped'
    BY <1>5, <2>2 DEF PanelServes, AdminTyped, countVars
  <2> QED
    BY <1>5, <2>1, <2>3, DiskStays, NodeStays DEF PanelServes
<1> QED
  BY <1>1, <1>2, <1>3, <1>4, <1>5 DEF PanelSteps

\* What FinishDomainMove reads back has the saved panel name, and each other field
\* of it is the saved one or its own.
LEMMA RereadTyped ==
  ASSUME WellFormed(saved), WellFormed(domains)
  PROVE  /\ Reread \in PanelDomains
         /\ Reread.FlagDomain # None => Reread.Domain # None
<1>1. /\ saved \in PanelDomains /\ domains \in PanelDomains
      /\ saved.FlagDomain # None => saved.Domain # None
  BY DEF WellFormed
<1> DEFINE e == [saved EXCEPT !.SubDomain = Decoded(@, None, domains.SubDomain),
                              !.FlagSub = Decoded(@, None, domains.FlagSub),
                              !.OldPanel = Decoded(@, {}, domains.OldPanel),
                              !.OldSub = Decoded(@, {}, domains.OldSub),
                              !.MoveHostFrom = Decoded(@, None, domains.MoveHostFrom)]
<1>2. /\ Decoded(saved.SubDomain, None, domains.SubDomain) \in Name
      /\ Decoded(saved.FlagSub, None, domains.FlagSub) \in Name
      /\ Decoded(saved.OldPanel, {}, domains.OldPanel) \subseteq Names
      /\ Decoded(saved.OldSub, {}, domains.OldSub) \subseteq Names
      /\ Decoded(saved.MoveHostFrom, None, domains.MoveHostFrom) \in Name
  BY <1>1, FieldsOf DEF Decoded
<1>3. e \in PanelDomains /\ e.Domain = saved.Domain /\ e.FlagDomain = saved.FlagDomain
  BY <1>1, <1>2 DEF PanelDomains
<1> QED
  BY <1>1, <1>3 DEF Reread

LEMMA FinisherTyped ==
  ASSUME Typed, FinisherSteps PROVE Typed'
<1> USE DEF Typed
<1>1. ASSUME NEW f \in Pems, Relinks(f) PROVE Typed'
  <2>1. DiskTyped'
    BY <1>1 DEF Relinks, DiskTyped, WellFormed
  <2> QED
    BY <1>1, <2>1, PanelStays, NodeStays, AdminStays DEF Relinks, adminVars, countVars
<1>2. CASE FinishRelinks
  <2>1. PanelTyped'
    BY <1>2 DEF FinishRelinks, PanelTyped, WellFormed, Serving, Records
  <2>2. faults' = faults \/ faults' \in 0..MaxFaults
    BY <1>2, OneMoreFault DEF FinishRelinks, Fault
  <2> QED
    BY <1>2, <2>1, <2>2, DiskStays, NodeStays, AdminStays DEF FinishRelinks, adminVars
<1>3. ASSUME NEW r \in Records, FinishMoves(r) PROVE Typed'
  <2> DEFINE moved == [host EXCEPT ![r] = IF @ = domains.MoveHostFrom THEN domains.Domain ELSE @]
  <2>1. domains.Domain \in Names /\ finisher = r
    BY <1>3, FieldsOf DEF FinishMoves, PanelTyped, WellFormed, Serving, Name, Records
  <2>2. /\ host' \in {host, moved} /\ finisher' \in {"inbound", "read", "failed"}
        /\ faults' = faults \/ (faults < MaxFaults /\ faults' = faults + 1)
        /\ UNCHANGED <<saved, unit, panelEnv, certs, certLink, panel, domains, latest, dns, nodeVars,
                       wanted, links, changes, upgrades>>
    BY <1>3 DEF FinishMoves, Fault, adminVars
  <2>3. DiskTyped'
    <3>1. host' \in [Records -> Names]
      BY <2>1, <2>2 DEF DiskTyped
    <3> QED
      BY <2>2, <3>1 DEF DiskTyped, WellFormed
  <2>4. PanelTyped'
    BY <2>1, <2>2 DEF PanelTyped, WellFormed, Serving, Records
  <2> QED
    BY <2>2, <2>3, <2>4, OneMoreFault, NodeStays, AdminStays
<1>4. CASE FinishReads
  <2>1. latest' \in PanelDomains /\ (latest'.FlagDomain # None => latest'.Domain # None)
    BY <1>4, RereadTyped DEF FinishReads, PanelTyped, DiskTyped, WellFormed
  <2>2. PanelTyped'
    BY <1>4, <2>1 DEF FinishReads, PanelTyped, WellFormed, Serving, Records
  <2>3. faults' = faults \/ faults' \in 0..MaxFaults
    BY <1>4, OneMoreFault DEF FinishReads, Unread, Fault
  <2> QED
    BY <1>4, <2>2, <2>3, DiskStays, NodeStays, AdminStays DEF FinishReads, adminVars
<1>5. CASE FinishSaves
  <2>1. WellFormed(saved')
    <3>1. CASE saved' = saved
      BY <3>1 DEF DiskTyped, WellFormed
    <3>2. CASE saved' = [latest EXCEPT !.MoveHostFrom = None]
      BY <3>2, SettleFields DEF PanelTyped, WellFormed
    <3> QED
      BY <1>5, <3>1, <3>2 DEF FinishSaves
  <2>2. DiskTyped'
    BY <1>5, <2>1 DEF FinishSaves, DiskTyped, WellFormed
  <2>3. WellFormed(latest') /\ finisher' \in {"none", "failed"} /\ finisher = "save"
    BY <1>5, UnsavedTyped DEF FinishSaves
  <2>4. PanelTyped'
    BY <1>5, <2>3 DEF FinishSaves, PanelTyped, WellFormed, Serving
  <2>5. faults' = faults \/ faults' \in 0..MaxFaults
    BY <1>5, OneMoreFault DEF FinishSaves, Fault
  <2> QED
    BY <1>5, <2>2, <2>4, <2>5, NodeStays, AdminStays DEF FinishSaves, adminVars
<1> QED
  BY <1>1, <1>2, <1>3, <1>4, <1>5 DEF FinisherSteps

LEMMA NodeStepsTyped ==
  ASSUME Typed, NodeSteps \/ ConnectionLost \/ NodeStops PROVE Typed'
<1> USE DEF Typed
<1>1. CASE NodeDials
  <2>1. domains.Domain \in Names
    BY <1>1, FieldsOf DEF NodeDials, redirectIfMoved, Reachable, PanelTyped, WellFormed, Serving, Name
  <2>2. NodeTyped'
    BY <1>1, <2>1, PanelMoveAssumption DEF NodeDials, redirectIfMoved, NodeTyped, Name
  <2>3. faults' = faults \/ faults' \in 0..MaxFaults
    BY <1>1, OneMoreFault DEF NodeDials, redirectIfMoved, Fault
  <2> QED
    BY <1>1, <2>2, <2>3, DiskStays, PanelStays, AdminStays DEF NodeDials, redirectIfMoved, adminVars
<1>2. CASE NodeProbes
  <2>1. NodeTyped'
    BY <1>2, PanelMoveAssumption DEF NodeProbes, NodeTyped, Name
  <2> QED
    BY <1>2, <2>1, DiskStays, PanelStays, AdminStays DEF NodeProbes, adminVars, countVars
<1>3. CASE NodeWrites
  <2>1. NodeTyped'
    BY <1>3, PanelMoveAssumption DEF NodeWrites, NodeTyped, Name
  <2>2. faults' = faults \/ faults' \in 0..MaxFaults
    BY <1>3, OneMoreFault DEF NodeWrites, Fault
  <2> QED
    BY <1>3, <2>1, <2>2, DiskStays, PanelStays, AdminStays DEF NodeWrites, adminVars
<1>4. CASE NodeMoves
  <2>1. NodeTyped'
    BY <1>4, PanelMoveAssumption DEF NodeMoves, NodeTyped, Name
  <2> QED
    BY <1>4, <2>1, DiskStays, PanelStays, AdminStays DEF NodeMoves, adminVars, countVars
<1>5. CASE NodeStarts
  <2>1. NodeTyped'
    BY <1>5, PanelMoveAssumption DEF NodeStarts, NodeTyped, Name
  <2> QED
    BY <1>5, <2>1, DiskStays, PanelStays, AdminStays DEF NodeStarts, adminVars, countVars
<1>6. CASE ConnectionLost
  <2>1. NodeTyped'
    BY <1>6 DEF ConnectionLost, NodeTyped
  <2>2. faults' \in 0..MaxFaults
    BY <1>6, OneMoreFault DEF ConnectionLost, Fault
  <2> QED
    BY <1>6, <2>1, <2>2, DiskStays, PanelStays, AdminStays DEF ConnectionLost, adminVars
<1>7. CASE NodeStops
  <2>1. NodeTyped'
    BY <1>7, PanelMoveAssumption DEF NodeStops, NodeTyped, Name
  <2>2. faults' \in 0..MaxFaults
    BY <1>7, OneMoreFault DEF NodeStops, Fault
  <2> QED
    BY <1>7, <2>1, <2>2, DiskStays, PanelStays, AdminStays DEF NodeStops, adminVars
<1> QED
  BY <1>1, <1>2, <1>3, <1>4, <1>5, <1>6, <1>7 DEF NodeSteps

LEMMA TypedNext == Typed /\ [Next]_vars => Typed'
<1> SUFFICES ASSUME Typed, [Next]_vars PROVE Typed'
  OBVIOUS
<1>1. ASSUME NEW n \in Names, PointsHere(n) \/ Obtain(n) PROVE Typed'
  <2>1. DiskTyped'
    BY <1>1 DEF PointsHere, Obtain, Typed, DiskTyped, WellFormed, diskVars, Name
  <2>2. UNCHANGED <<panelVars, nodeVars, adminVars, countVars>>
    BY <1>1 DEF PointsHere, Obtain
  <2> QED
    BY <2>1, <2>2, PanelStays, NodeStays, AdminStays DEF Typed, adminVars, countVars
<1>2. CASE UNCHANGED vars
  BY <1>2, DiskStays, PanelStays, NodeStays, AdminStays DEF vars, Typed, adminVars, countVars
<1> QED
  BY <1>1, <1>2, FormsTyped, PanelStepsTyped, FinisherTyped, NodeStepsTyped DEF Next

\* The types of the model, under every circumstance: FinishDomainMove runs only in a
\* process that has records to move, the node is told a name while movePanel runs
\* and at no other time, and what cert.pem is linked to has a certificate.
THEOREM TypeCorrect == Spec => []TypeOK
<1>1. Typed => TypeOK
  <2> SUFFICES ASSUME Typed PROVE TypeOK
    OBVIOUS
  <2>1. finisher # "none" => domains.MoveHostFrom \in Names \ {domains.Domain}
    BY FieldsOf DEF Typed, PanelTyped, WellFormed, Name
  <2>2. (told = None) = (move = "idle")
    BY DEF Typed, NodeTyped
  <2> QED
    BY <2>1, <2>2 DEF Typed, DiskTyped, PanelTyped, NodeTyped, AdminTyped, WellFormed, TypeOK
<1> QED
  BY <1>1, TypedInit, TypedNext, PTL DEF Spec

-----------------------------------------------------------------------------
(* What the panel comes up on is what was asked for *)

\* Forms come one at a time and leave in what is saved, panel.env is written, the unit
\* has not been written again between two changes, and a setting that says something
\* else than the program would do without it is read.
InTurn ==
  Circumstances \cap {"before_restart", "at_once", "leaves_out", "env_behind", "after_upgrade",
                      "start_unread", "finish_unread"} = {}

LEMMA ResolvesTo ==
  \/ /\ unit \in {FlagsOf(saved), Called(saved)}
     /\ ResolveDomains = saved
  \/ /\ unit \notin {FlagsOf(saved), Called(saved)}
     /\ ResolveDomains = Flags(unit[1], unit[2])
  BY DEF ResolveDomains, FlagsOf, Called

LEMMA AlikeFields ==
  ASSUME NEW d \in PanelDomains, NEW e \in PanelDomains
  PROVE  Alike(d, e) <=> /\ d.Domain = e.Domain /\ d.SubDomain = e.SubDomain
                         /\ d.FlagDomain = e.FlagDomain /\ d.FlagSub = e.FlagSub
                         /\ d.OldPanel = e.OldPanel /\ d.OldSub = e.OldSub
<1> DEFINE s(x) == [x EXCEPT !.MoveHostFrom = None]
<1>1. \A x \in PanelDomains : s(x) = [Domain |-> x.Domain, SubDomain |-> x.SubDomain,
                                      FlagDomain |-> x.FlagDomain, FlagSub |-> x.FlagSub,
                                      OldPanel |-> x.OldPanel, OldSub |-> x.OldSub, MoveHostFrom |-> None]
  BY DEF PanelDomains
<1> HIDE DEF s
<1>2. Alike(d, e) <=> s(d) = s(e)
  BY DEF Alike, s
<1>3. s(d) = s(e) => /\ d.Domain = e.Domain /\ d.SubDomain = e.SubDomain
                     /\ d.FlagDomain = e.FlagDomain /\ d.FlagSub = e.FlagSub
                     /\ d.OldPanel = e.OldPanel /\ d.OldSub = e.OldSub
  BY <1>1
<1> QED
  BY <1>1, <1>2, <1>3

LEMMA SticksInit == Init => Sticks
<1> SUFFICES ASSUME Init PROVE Sticks
  OBVIOUS
<1>1. PICK s \in Name \ {First} :
        /\ saved = Unsaved /\ unit = <<First, s>> /\ panelEnv = unit
        /\ panel = "serving" /\ domains = Flags(First, s) /\ finisher = "none" /\ wanted = unit
  BY DEF Init
<1>2. First \in Names /\ First # None
  BY PanelMoveAssumption
<1>3. Called(saved) = <<None, None>> /\ FlagsOf(saved) = <<None, None>>
  BY <1>1, FlagsFields DEF Unsaved
<1>4. unit \notin {Called(saved), FlagsOf(saved)}
  BY <1>1, <1>2, <1>3
<1>5. ResolveDomains = Flags(First, s)
  BY <1>1, <1>4, ResolvesTo
<1>6. Called(Flags(First, s)) = <<First, s>> /\ FlagsOf(Flags(First, s)) = <<First, s>>
  BY FlagsFields
<1> QED
  BY <1>1, <1>5, <1>6 DEF Sticks, Alike

\* What is resolved depends on what was saved and on the unit.
LEMMA SameDisk == ASSUME UNCHANGED <<saved, unit>> PROVE ResolveDomains' = ResolveDomains
  BY DEF ResolveDomains

LEMMA SticksStays ==
  ASSUME Sticks, UNCHANGED <<saved, unit, panelEnv, wanted, domains>>,
         panel' = panel \/ (panel' = "serving" /\ panel = "starting"),
         finisher' # "save" \/ UNCHANGED <<finisher, latest>>
  PROVE  Sticks'
  BY SameDisk DEF Sticks, Alike, Called, FlagsOf

LEMMA FormsStick ==
  ASSUME InTurn, Typed, Sticks,
         (\E n \in Names, s \in Name, skip_dns \in BOOLEAN : postDomain(n, s, skip_dns)) \/ postRetireOldDomains
  PROVE  /\ Sticks' /\ ResolveDomains' = saved' /\ panel = "serving" /\ panel' = "leaving"
         /\ Called(domains) = wanted /\ Alike(domains, ResolveDomains)
<1>1. domains \in PanelDomains /\ Serving /\ panel' = "leaving" /\ Careful
  BY DEF postDomain, postRetireOldDomains, Typed, PanelTyped, WellFormed
<1>2. panel = "serving" /\ finisher # "save"
  BY <1>1 DEF InTurn, Careful, Serving
<1>3. Alike(domains, ResolveDomains) /\ Called(domains) = wanted
  <2>1. ResolveDomains \in PanelDomains
    BY Resolved DEF Typed, WellFormed
  <2>2. Alike(domains, ResolveDomains)
    BY <1>2 DEF Sticks
  <2> QED
    BY <1>1, <2>1, <2>2, AlikeFields DEF Sticks, Called
<1>4. ASSUME NEW n \in Names, NEW s \in Name, NEW skip_dns \in BOOLEAN, postDomain(n, s, skip_dns)
      PROVE  Sticks' /\ ResolveDomains' = saved'
  <2>1. /\ saved' = changeDomains(domains, n, s) /\ n # s
        /\ UNCHANGED <<unit, domains, finisher>> /\ wanted' = <<n, s>>
        /\ panelEnv' = <<n, s>> \/ (panelEnv' = panelEnv /\ panelEnv = unit)
    BY <1>4 DEF postDomain, InTurn
  <2>2. unit = FlagsOf(domains)
    BY <1>4 DEF postDomain, CarefulChange, InTurn, FlagsOf
  <2>3. FlagsOf(saved') = FlagsOf(domains) /\ Called(saved') = <<n, s>>
    BY <1>1, <2>1, ChangeFields DEF FlagsOf, Called
  <2>4. ResolveDomains' = saved'
    BY <2>1, <2>2, <2>3 DEF ResolveDomains, FlagsOf
  <2> QED
    BY <1>1, <1>2, <2>1, <2>2, <2>3, <2>4 DEF Sticks, FlagsOf, Called
<1>5. ASSUME postRetireOldDomains PROVE Sticks' /\ ResolveDomains' = saved'
  <2>1. /\ saved' = [domains EXCEPT !.OldPanel = {}, !.OldSub = {}]
        /\ UNCHANGED <<unit, panelEnv, domains, finisher, wanted>>
    BY <1>5 DEF postRetireOldDomains
  <2>2. FlagsOf(saved') = FlagsOf(domains) /\ Called(saved') = Called(domains)
    BY <1>1, <2>1, RetireFields DEF FlagsOf, Called
  <2>3. unit \in {FlagsOf(domains), Called(domains)}
    BY <1>2 DEF Sticks
  <2>4. ResolveDomains' = saved'
    BY <2>1, <2>2, <2>3 DEF ResolveDomains, FlagsOf, Called
  <2> QED
    BY <1>1, <1>2, <1>3, <2>1, <2>2, <2>3, <2>4 DEF Sticks, FlagsOf, Called
<1> QED
  BY <1>1, <1>2, <1>3, <1>4, <1>5

\* The installer writes what panel.env says, which is what is in the unit already or
\* what was asked for; either way the same names come up.
LEMMA UpgradeSticks ==
  ASSUME Typed, Sticks, Upgrade PROVE Sticks' /\ ResolveDomains' = ResolveDomains
<1>1. UNCHANGED <<saved, panelEnv, wanted>> /\ unit' = panelEnv /\ panel' = "down" /\ finisher' = "none"
  BY DEF Upgrade, Gone, adminVars
<1>2. ResolveDomains' = ResolveDomains
  <2>1. CASE panelEnv = unit
    BY <1>1, <2>1, SameDisk
  <2>2. CASE panelEnv = wanted
    <3>1. CASE ResolveDomains = saved
      <4>1. unit' = Called(saved)
        BY <1>1, <2>2, <3>1 DEF Sticks
      <4> QED
        BY <1>1, <3>1, <4>1 DEF ResolveDomains, Called
    <3>2. CASE ResolveDomains = Flags(unit[1], unit[2])
      <4>1. wanted = <<unit[1], unit[2]>>
        BY <3>2, FlagsFields DEF Sticks
      <4>2. unit = <<unit[1], unit[2]>>
        BY DEF Typed, DiskTyped
      <4>3. unit' = unit
        BY <1>1, <2>2, <4>1, <4>2
      <4> QED
        BY <1>1, <4>3, SameDisk
    <3> QED
      BY <3>1, <3>2, ResolvesTo
  <2> QED
    BY <2>1, <2>2 DEF Sticks
<1> QED
  BY <1>1, <1>2 DEF Sticks, Called

\* A panel that starts takes what is resolved.
LEMMA StartSticks ==
  ASSUME InTurn, Typed, Sticks, PanelStarts PROVE Sticks'
<1>1. /\ UNCHANGED <<saved, unit, panelEnv, wanted, finisher, latest>>
      /\ domains' = ResolveDomains /\ panel' = "starting"
  BY DEF PanelStarts, Unread, InTurn, diskVars, adminVars
<1>2. unit \in {FlagsOf(ResolveDomains), Called(ResolveDomains)}
  <2>1. unit = <<unit[1], unit[2]>>
    BY DEF Typed, DiskTyped
  <2>2. FlagsOf(Flags(unit[1], unit[2])) = <<unit[1], unit[2]>>
    BY FlagsFields
  <2> QED
    BY <2>1, <2>2, ResolvesTo
<1>3. ResolveDomains' = ResolveDomains
  BY <1>1, SameDisk
<1> QED
  BY <1>1, <1>2, <1>3 DEF Sticks, Alike, Called, FlagsOf

\* What FinishDomainMove saves has the same names in it.
LEMMA FinishSticks ==
  ASSUME Typed, Sticks, FinishSaves
  PROVE  /\ Sticks' /\ Alike(ResolveDomains', ResolveDomains)
         /\ ResolveDomains' \in PanelDomains
<1>1. /\ UNCHANGED <<unit, panelEnv, wanted, panel, domains>>
      /\ finisher' \in {"none", "failed"} /\ latest = saved
      /\ saved' = saved \/ saved' = [saved EXCEPT !.MoveHostFrom = None]
  BY DEF FinishSaves, Sticks, adminVars
<1>2. saved \in PanelDomains /\ domains \in PanelDomains /\ ResolveDomains \in PanelDomains
  BY Resolved DEF Typed, DiskTyped, PanelTyped, WellFormed
<1>3. FlagsOf(saved') = FlagsOf(saved) /\ Called(saved') = Called(saved) /\ Alike(saved', saved)
  <2>1. CASE saved' = saved
    BY <2>1 DEF FlagsOf, Called, Alike
  <2>2. CASE saved' = [saved EXCEPT !.MoveHostFrom = None]
    BY <1>2, <2>2, SettleFields, AlikeFields DEF FlagsOf, Called
  <2> QED
    BY <1>1, <2>1, <2>2
<1>4. Alike(ResolveDomains', ResolveDomains) /\ ResolveDomains' \in PanelDomains
  <2>1. CASE ResolveDomains = saved /\ unit \in {FlagsOf(saved), Called(saved)}
    <3>1. ResolveDomains' = saved'
      BY <1>1, <1>3, <2>1 DEF ResolveDomains, FlagsOf, Called
    <3>2. saved' \in PanelDomains
      BY <1>1, <1>2, SettleFields
    <3> QED
      BY <1>3, <2>1, <3>1, <3>2
  <2>2. CASE ResolveDomains = Flags(unit[1], unit[2]) /\ unit \notin {FlagsOf(saved), Called(saved)}
    <3>1. ResolveDomains' = Flags(unit[1], unit[2])
      BY <1>1, <1>3, <2>2 DEF ResolveDomains, FlagsOf, Called
    <3> QED
      BY <1>2, <2>2, <3>1 DEF Alike
  <2> QED
    BY <2>1, <2>2, ResolvesTo
<1>5. Called(ResolveDomains') = Called(ResolveDomains)
  BY <1>2, <1>4, AlikeFields DEF Called
<1>6. panel \in {"starting", "serving"} => Alike(domains, ResolveDomains')
  BY <1>4 DEF Sticks, Alike
<1> QED
  BY <1>1, <1>4, <1>5, <1>6 DEF Sticks, Alike, Called, FlagsOf

LEMMA SticksNext == ASSUME InTurn, Typed, Sticks, [Next]_vars PROVE Sticks'
<1>1. CASE PanelRestarts \/ PanelStops
  BY <1>1, SameDisk DEF PanelRestarts, PanelStops, Gone, diskVars, adminVars, Sticks, Called
<1>2. CASE FinishReads
  <2>1. latest' = saved /\ finisher' = "save" /\ UNCHANGED <<saved, unit, panelEnv, wanted, panel, domains>>
    BY <1>2 DEF FinishReads, Unread, InTurn, diskVars, adminVars
  <2> QED
    BY <2>1, SameDisk DEF Sticks, Alike, Called, FlagsOf
<1>3. CASE (\E f \in Pems : Relinks(f)) \/ FinishRelinks \/ (\E r \in Records : FinishMoves(r)) \/ PanelServes
  <2>1. finisher' # "save" /\ UNCHANGED <<saved, unit, panelEnv, wanted, domains>>
    BY <1>3 DEF Relinks, FinishRelinks, FinishMoves, PanelServes, Records, diskVars, panelVars, adminVars
  <2>2. panel' = panel \/ (panel' = "serving" /\ panel = "starting")
    BY <1>3 DEF Relinks, FinishRelinks, FinishMoves, PanelServes, panelVars
  <2> QED
    BY <2>1, <2>2, SticksStays
<1>4. CASE (\E n \in Names : PointsHere(n) \/ Obtain(n)) \/ NodeSteps \/ ConnectionLost \/ NodeStops \/ UNCHANGED vars
  <2>1. UNCHANGED <<saved, unit, panelEnv, wanted, domains, panel, finisher, latest>>
    BY <1>4 DEF PointsHere, Obtain, NodeSteps, NodeDials, redirectIfMoved, NodeProbes, NodeWrites, NodeMoves, NodeStarts,
                ConnectionLost, NodeStops, vars, diskVars, panelVars, adminVars
  <2> QED
    BY <2>1, SticksStays
<1> QED
  BY <1>1, <1>2, <1>3, <1>4, FormsStick, UpgradeSticks, StartSticks, FinishSticks
  DEF Next, PanelSteps, FinisherSteps

\* A change made on the settings page is what the panel comes up on: whichever of the
\* saved change, the unit and panel.env is ahead, and whatever the installer,
\* FinishDomainMove and crashes do in between.
THEOREM ChangeHolds == ASSUME InTurn PROVE Spec => []ChangeSticks
<1>1. Typed /\ Sticks /\ [Next]_vars => Typed' /\ Sticks'
  BY TypedNext, SticksNext
<1>2. Typed /\ Sticks => ChangeSticks
  <2> SUFFICES ASSUME Typed, Sticks, panel \in {"starting", "serving"}
               PROVE  <<domains.Domain, domains.SubDomain>> = wanted
    BY DEF ChangeSticks
  <2>1. domains \in PanelDomains /\ ResolveDomains \in PanelDomains
    BY Resolved DEF Typed, PanelTyped, WellFormed
  <2> QED
    BY <2>1, AlikeFields DEF Sticks, Called
<1> QED
  BY <1>1, <1>2, TypedInit, SticksInit, PTL DEF Spec

-----------------------------------------------------------------------------
(* Every name in use goes on working *)

\* Besides: names with links stay the subscriptions', names nodes dial are not made
\* the subscriptions', and old names are retired when the node has left them.
Considerate == Circumstances \subseteq {"same_process", "relink_fails"}

LEMMA ConsiderateInTurn == Considerate => InTurn
  BY DEF Considerate, InTurn

LEMMA NamesOf ==
  ASSUME NEW d
  PROVE  /\ \A x : x \in NodeNames(d) <=>
              /\ (x # None /\ x \in {d.Domain, d.SubDomain}) \/ x \in d.OldPanel \/ x \in d.OldSub
              /\ x = d.SubDomain \/ x \in d.OldSub => x \in d.OldPanel
         /\ \A x : x \in LinkNames(d) <=>
              /\ (x # None /\ x \in {d.Domain, d.SubDomain}) \/ x \in d.OldPanel \/ x \in d.OldSub
              /\ d.SubDomain = None \/ x = d.SubDomain \/ x \in d.OldSub
  BY DEF NodeNames, LinkNames, Served, Old, isSubscriptionHost

LEMMA AlikeNames ==
  ASSUME NEW d \in PanelDomains, NEW e \in PanelDomains, Alike(d, e)
  PROVE  NodeNames(d) = NodeNames(e) /\ LinksOf(d) = LinksOf(e)
<1>1. /\ d.Domain = e.Domain /\ d.SubDomain = e.SubDomain
      /\ d.OldPanel = e.OldPanel /\ d.OldSub = e.OldSub
  BY AlikeFields
<1>2. \A x : x \in NodeNames(d) <=> x \in NodeNames(e)
  BY <1>1, NamesOf
<1>3. LinksOf(d) = LinksOf(e)
  BY <1>1 DEF LinksOf, Origin
<1> QED
  BY <1>2, <1>3

\* A link that was handed out is answered.
LEMMA LinksAnswered ==
  ASSUME NEW d \in PanelDomains, d.Domain # None PROVE LinksOf(d) \subseteq LinkNames(d)
<1>1. \A x \in d.OldSub : x \in LinkNames(d)
  BY NamesOf
<1>2. Origin(d) \in LinkNames(d)
  <2>1. CASE d.SubDomain = None
    BY <2>1, NamesOf DEF Origin
  <2>2. CASE d.SubDomain # None
    BY <2>2, NamesOf DEF Origin
  <2> QED
    BY <2>1, <2>2
<1> QED
  BY <1>1, <1>2 DEF LinksOf

\* A change keeps the node channel on every name that has it, but for one that is
\* taken for the subscriptions.
LEMMA ChangeKeepsNodes ==
  ASSUME NEW d \in PanelDomains, d.Domain # None, NEW n \in Names, NEW s \in Name, n # s,
         s \notin NodeNames(d), NEW x \in NodeNames(d)
  PROVE  x \in NodeNames(changeDomains(d, n, s))
<1> DEFINE e == changeDomains(d, n, s)
<1>1. /\ e.Domain = n /\ e.SubDomain = s
      /\ e.OldPanel = (d.OldPanel \union (IF n # d.Domain THEN {d.Domain} ELSE {})) \ {n, s}
      /\ e.OldSub \cap {n, s} = {}
  BY ChangeFields
<1>2. x # s /\ n # None /\ d.Domain # None
  BY PanelMoveAssumption
<1> HIDE DEF e
<1>3. CASE x = n
  <2>1. x \notin e.OldSub /\ x # e.SubDomain /\ x = e.Domain /\ x # None
    BY <1>1, <1>2, <1>3
  <2> QED
    BY <2>1, NamesOf DEF e
<1>4. CASE x # n
  <2>1. x = d.Domain \/ x \in d.OldPanel
    <3>1. /\ (x # None /\ x \in {d.Domain, d.SubDomain}) \/ x \in d.OldPanel \/ x \in d.OldSub
          /\ x = d.SubDomain \/ x \in d.OldSub => x \in d.OldPanel
      BY NamesOf
    <3> QED
      BY <3>1
  <2>2. x \in e.OldPanel
    BY <1>1, <1>2, <1>4, <2>1
  <2> QED
    BY <2>2, NamesOf DEF e
<1> QED
  BY <1>3, <1>4

\* It keeps the links, unless subscriptions are taken off a name the panel keeps or takes.
LEMMA ChangeKeepsLinks ==
  ASSUME NEW d \in PanelDomains, d.Domain # None, NEW n \in Names, NEW s \in Name, n # s,
         s = None \/ n \notin LinkNames(d), NEW x \in LinksOf(d)
  PROVE  x \in LinksOf(changeDomains(d, n, s))
<1> DEFINE e == changeDomains(d, n, s)
<1>1. /\ e.Domain = n /\ e.SubDomain = s
      /\ e.OldSub = (d.OldSub \union {y \in Names : \/ y = d.Domain /\ n # d.Domain /\ d.SubDomain = None
                                                    \/ y = d.SubDomain /\ y # s}) \ {n, s}
  BY ChangeFields
<1>2. x \in LinkNames(d)
  BY LinksAnswered
<1>3. /\ d.OldSub \subseteq Names /\ d.Domain \in Names /\ d.SubDomain \in Names \union {None}
      /\ None \notin Names
  BY FieldsOf, PanelMoveAssumption DEF Name
<1> HIDE DEF e
<1>4. Origin(e) = IF s # None THEN s ELSE n
  BY <1>1 DEF Origin
<1>5. CASE x = n
  <2>1. s = None
    BY <1>2, <1>5
  <2> QED
    BY <1>4, <1>5, <2>1 DEF LinksOf, e
<1>6. CASE x = s
  <2>1. x \in Names
    BY <1>3 DEF LinksOf, Origin
  <2>2. s # None
    BY <1>3, <1>6, <2>1
  <2> QED
    BY <1>4, <1>6, <2>2 DEF LinksOf, e
<1>7. CASE x \notin {n, s}
  <2>1. x \in d.OldSub \/ x = Origin(d)
    BY DEF LinksOf
  <2>2. x \in e.OldSub
    <3>1. CASE x \in d.OldSub
      BY <1>1, <1>7, <3>1
    <3>2. CASE x = Origin(d) /\ d.SubDomain # None
      <4>1. x = d.SubDomain /\ x \in Names
        BY <1>3, <3>2 DEF Origin
      <4> QED
        BY <1>1, <1>7, <4>1
    <3>3. CASE x = Origin(d) /\ d.SubDomain = None
      <4>1. x = d.Domain /\ x \in Names
        BY <1>3, <3>3 DEF Origin
      <4> QED
        BY <1>1, <1>7, <3>3, <4>1
    <3> QED
      BY <2>1, <3>1, <3>2, <3>3
  <2> QED
    BY <2>2 DEF LinksOf, e
<1> QED
  BY <1>5, <1>6, <1>7

LEMMA SteadyInit == Init => NodeSteady
  BY PanelMoveAssumption DEF Init, NodeSteady, Serving

LEMMA SteadyNext == ASSUME Typed, NodeSteady, [Next]_vars PROVE NodeSteady'
<1>1. CASE PanelRestarts \/ PanelStops \/ Upgrade
  BY <1>1 DEF PanelRestarts, PanelStops, Upgrade, Gone, NodeSteady
<1>2. CASE PanelStarts
  BY <1>2 DEF PanelStarts, nodeVars, NodeSteady, Serving
<1>3. CASE \/ \E n \in Names, s \in Name, skip_dns \in BOOLEAN : postDomain(n, s, skip_dns)
           \/ postRetireOldDomains \/ PanelServes \/ FinisherSteps
           \/ \E n \in Names : PointsHere(n) \/ Obtain(n)
           \/ UNCHANGED vars
  <2>1. UNCHANGED <<nodeUp, url, env, conn, told, move, domains>>
    BY <1>3 DEF postDomain, postRetireOldDomains, PanelServes, FinisherSteps, Relinks, FinishRelinks, FinishMoves,
                FinishReads, FinishSaves, PointsHere, Obtain, vars, nodeVars, panelVars
  <2>2. Serving => Serving'
    BY <1>3 DEF postDomain, postRetireOldDomains, PanelServes, FinisherSteps, Relinks, FinishRelinks, FinishMoves,
                FinishReads, FinishSaves, PointsHere, Obtain, vars, panelVars, Serving
  <2> QED
    BY <2>1, <2>2 DEF NodeSteady
<1>4. CASE NodeSteps \/ ConnectionLost \/ NodeStops
  <2>1. UNCHANGED <<panel, domains>> /\ (Serving => Serving')
    BY <1>4 DEF NodeSteps, NodeDials, redirectIfMoved, NodeProbes, NodeWrites, NodeMoves, NodeStarts, ConnectionLost, NodeStops,
                panelVars, Serving
  <2>2. NodeTyped
    BY DEF Typed
  <2>3. CASE NodeDials
    BY <2>1, <2>2, <2>3 DEF NodeDials, redirectIfMoved, NodeSteady, NodeTyped, Reachable
  <2>4. CASE NodeProbes
    BY <2>1, <2>2, <2>4 DEF NodeProbes, NodeSteady, NodeTyped
  <2>5. CASE NodeWrites
    BY <2>1, <2>2, <2>5 DEF NodeWrites, NodeSteady, NodeTyped
  <2>6. CASE NodeMoves
    BY <2>1, <2>2, <2>6 DEF NodeMoves, NodeSteady, NodeTyped
  <2>7. CASE NodeStarts
    BY <2>1, <2>2, <2>7 DEF NodeStarts, NodeSteady, NodeTyped
  <2>8. CASE ConnectionLost
    BY <2>1, <2>2, <2>8 DEF ConnectionLost, NodeSteady, NodeTyped
  <2>9. CASE NodeStops
    BY <2>1, <2>2, <2>9 DEF NodeStops, NodeSteady, NodeTyped
  <2> QED
    BY <1>4, <2>3, <2>4, <2>5, <2>6, <2>7, <2>8, <2>9 DEF NodeSteps
<1> QED
  BY <1>1, <1>2, <1>3, <1>4 DEF Next, PanelSteps

LEMMA KeepsInit == Init => KeepsNames
<1> SUFFICES ASSUME Init PROVE KeepsNames
  OBVIOUS
<1>1. PICK s \in Name \ {First} :
        /\ saved = Unsaved /\ unit = <<First, s>> /\ certs = Served(Flags(First, s))
        /\ panel = "serving" /\ domains = Flags(First, s)
        /\ url = First /\ env = First /\ move = "idle" /\ links = {Origin(domains)}
  BY DEF Init
<1>2. First \in Names /\ First # None
  BY PanelMoveAssumption
<1>3. FlagsOf(saved) = <<None, None>> /\ Called(saved) = <<None, None>>
  BY <1>1, FlagsFields DEF Unsaved
<1>4. ResolveDomains = domains
  BY <1>1, <1>2, <1>3, ResolvesTo
<1>5. First \in NodeNames(domains) /\ First \in certs
  <2>1. /\ domains.Domain = First /\ domains.SubDomain = s /\ First # s
        /\ domains.OldPanel = {} /\ domains.OldSub = {}
    BY <1>1, FlagsFields
  <2>2. First \in NodeNames(domains)
    BY <1>2, <2>1, NamesOf
  <2> QED
    BY <1>1, <2>2 DEF NodeNames
<1>6. InUse = {First}
  BY <1>1 DEF InUse
<1> QED
  BY <1>1, <1>4, <1>5, <1>6 DEF KeepsNames, LinksOf

LEMMA InUseStays == ASSUME UNCHANGED <<url, env, move, told>> PROVE InUse' = InUse
  BY DEF InUse

LEMMA FormsKeep ==
  ASSUME Considerate, Typed, Sticks, NodeSteady, KeepsNames,
         (\E n \in Names, s \in Name, skip_dns \in BOOLEAN : postDomain(n, s, skip_dns)) \/ postRetireOldDomains
  PROVE  KeepsNames'
<1>1. /\ ResolveDomains' = saved' /\ panel = "serving" /\ panel' = "leaving"
      /\ Called(domains) = wanted /\ wanted[1] # wanted[2]
  BY FormsStick, ConsiderateInTurn DEF Sticks
<1>2. domains \in PanelDomains /\ domains.Domain # None
  BY <1>1 DEF Typed, PanelTyped, WellFormed
<1>3. InUse \subseteq NodeNames(domains) \cap certs /\ links \subseteq LinksOf(domains)
  BY <1>1 DEF KeepsNames
<1>4. ASSUME NEW n \in Names, NEW s \in Name, NEW skip_dns \in BOOLEAN, postDomain(n, s, skip_dns)
      PROVE  KeepsNames'
  <2>1. /\ saved' = changeDomains(domains, n, s) /\ n # s
        /\ UNCHANGED <<domains, certs, links, url, env, move, told>>
    BY <1>4 DEF postDomain, nodeVars
  <2>2. s \notin NodeNames(domains) /\ (s = None \/ n \notin LinkNames(domains))
    BY <1>4 DEF postDomain, CarefulChange, Considerate
  <2>3. NodeNames(domains) \subseteq NodeNames(saved')
    BY <1>2, <2>1, <2>2, ChangeKeepsNodes
  <2>4. LinksOf(domains) \subseteq LinksOf(saved')
    BY <1>2, <2>1, <2>2, ChangeKeepsLinks
  <2>5. InUse' = InUse
    BY <2>1, InUseStays
  <2> QED
    BY <1>1, <1>3, <2>1, <2>3, <2>4, <2>5 DEF KeepsNames
<1>5. ASSUME postRetireOldDomains PROVE KeepsNames'
  <2>1. /\ saved' = [domains EXCEPT !.OldPanel = {}, !.OldSub = {}]
        /\ UNCHANGED <<domains, certs, url, env, move, told>> /\ links' = links \ Old(domains)
        /\ conn = domains.Domain
    BY <1>5 DEF postRetireOldDomains, nodeVars, Considerate
  <2>2. /\ saved'.OldPanel = {} /\ saved'.OldSub = {}
        /\ saved'.Domain = domains.Domain /\ saved'.SubDomain = domains.SubDomain
    BY <1>2, <2>1, RetireFields
  <2>3. url = domains.Domain /\ env = url /\ move = "idle"
    BY <1>2, <2>1 DEF Typed, NodeTyped, NodeSteady
  <2>4. domains.Domain \in NodeNames(saved')
    <3>1. domains.Domain # domains.SubDomain
      BY <1>1 DEF Called
    <3> QED
      BY <1>2, <2>2, <3>1, NamesOf
  <2>5. links' \subseteq LinksOf(saved') /\ links' \subseteq LinksOf(domains)
    BY <1>3, <2>1, <2>2 DEF LinksOf, Origin, Old
  <2>6. InUse = {domains.Domain} /\ InUse' = InUse
    BY <2>1, <2>3, InUseStays DEF InUse
  <2> QED
    BY <1>1, <1>3, <2>1, <2>3, <2>4, <2>5, <2>6 DEF KeepsNames
<1> QED
  BY <1>4, <1>5

LEMMA KeepsStays ==
  ASSUME KeepsNames, UNCHANGED <<saved, unit, links, domains, panel, url, env, move, told>>, certs \subseteq certs'
  PROVE  KeepsNames'
<1>1. ResolveDomains' = ResolveDomains /\ InUse' = InUse
  BY SameDisk, InUseStays
<1> QED
  BY <1>1 DEF KeepsNames

LEMMA PanelKeeps ==
  ASSUME InTurn, Typed, Sticks, KeepsNames, PanelSteps \/ PanelStops \/ Upgrade
  PROVE  KeepsNames'
<1>1. CASE PanelRestarts \/ PanelStops \/ Upgrade
  <2>1. UNCHANGED <<certs, links, url, env, move, told>> /\ panel' = "down"
    BY <1>1 DEF PanelRestarts, PanelStops, Upgrade, Gone, diskVars, adminVars
  <2>2. ResolveDomains' = ResolveDomains
    BY <1>1, UpgradeSticks, SameDisk DEF PanelRestarts, PanelStops, diskVars
  <2>3. InUse' = InUse
    BY <2>1, InUseStays
  <2> QED
    BY <2>1, <2>2, <2>3 DEF KeepsNames
<1>2. CASE PanelStarts
  <2>1. /\ UNCHANGED <<saved, unit, certs, links, url, env, move, told>>
        /\ panel' = "starting" /\ domains' = ResolveDomains
    BY <1>2 DEF PanelStarts, Unread, InTurn, diskVars, adminVars, nodeVars
  <2>2. ResolveDomains' = ResolveDomains /\ InUse' = InUse
    BY <2>1, SameDisk, InUseStays
  <2> QED
    BY <2>1, <2>2 DEF KeepsNames
<1>3. CASE PanelServes
  <2>1. /\ UNCHANGED <<saved, unit, certs, domains, url, env, move, told>>
        /\ panel = "starting" /\ panel' = "serving" /\ links' = links \union {Origin(domains)}
    BY <1>3 DEF PanelServes, diskVars, nodeVars
  <2>2. ResolveDomains' = ResolveDomains /\ InUse' = InUse
    BY <2>1, SameDisk, InUseStays
  <2>3. LinksOf(domains) = LinksOf(ResolveDomains)
    BY <2>1, AlikeNames, Resolved DEF Sticks, Typed, PanelTyped, WellFormed
  <2>4. links' \subseteq LinksOf(domains)
    BY <2>1 DEF KeepsNames, LinksOf
  <2> QED
    BY <2>1, <2>2, <2>3, <2>4 DEF KeepsNames
<1> QED
  BY <1>1, <1>2, <1>3 DEF PanelSteps

LEMMA FinisherKeeps ==
  ASSUME Typed, Sticks, KeepsNames, FinisherSteps PROVE KeepsNames'
<1>1. CASE (\E f \in Pems : Relinks(f)) \/ FinishRelinks \/ (\E r \in Records : FinishMoves(r)) \/ FinishReads
  BY <1>1, KeepsStays DEF Relinks, FinishRelinks, FinishMoves, FinishReads, diskVars, panelVars, adminVars, nodeVars
<1>2. CASE FinishSaves
  <2>1. UNCHANGED <<certs, links, domains, panel, url, env, move, told>>
    BY <1>2 DEF FinishSaves, adminVars, nodeVars
  <2>2. ResolveDomains \in PanelDomains /\ ResolveDomains' \in PanelDomains
    BY <1>2, Resolved, FinishSticks DEF WellFormed, Typed
  <2>3. NodeNames(ResolveDomains') = NodeNames(ResolveDomains) /\ LinksOf(ResolveDomains') = LinksOf(ResolveDomains)
    BY <1>2, <2>2, FinishSticks, AlikeNames
  <2>4. InUse' = InUse
    BY <2>1, InUseStays
  <2> QED
    BY <2>1, <2>3, <2>4 DEF KeepsNames
<1> QED
  BY <1>1, <1>2 DEF FinisherSteps

\* A name is used by the node when it has answered, and what answers is on the disk too:
\* a panel about to leave a name has seen the node on the one that stays.
LEMMA NodeKeeps ==
  ASSUME Typed, Sticks, NodeSteady, KeepsNames, NodeSteps \/ ConnectionLost \/ NodeStops
  PROVE  KeepsNames'
<1>1. UNCHANGED <<saved, unit, certs, links, panel, domains>>
  BY DEF NodeSteps, NodeDials, redirectIfMoved, NodeProbes, NodeWrites, NodeMoves, NodeStarts, ConnectionLost, NodeStops,
         diskVars, panelVars, adminVars
<1>2. ResolveDomains' = ResolveDomains
  BY <1>1, SameDisk
<1>3. SUFFICES /\ InUse' \subseteq NodeNames(ResolveDomains) \cap certs
               /\ panel # "down" => InUse' \subseteq NodeNames(domains)
               /\ panel = "leaving" /\ url = domains.Domain /\ env = url /\ move = "idle" =>
                    url' = url /\ env' = url /\ move' = "idle"
  BY <1>1, <1>2 DEF KeepsNames
<1>4. NodeTyped
  BY DEF Typed
<1>5. CASE NodeProbes /\ Reachable(told)
  <2>1. UNCHANGED <<url, env, told>> /\ move = "told" /\ told \in NodeNames(domains) \cap certs /\ Serving
    BY <1>5 DEF NodeProbes, Reachable
  <2>2. told \in NodeNames(ResolveDomains)
    <3>1. CASE panel = "serving"
      BY <2>1, <3>1, AlikeNames, Resolved DEF Sticks, Typed, PanelTyped, WellFormed
    <3>2. CASE panel = "leaving"
      BY <2>1, <3>2 DEF KeepsNames
    <3> QED
      BY <2>1, <3>1, <3>2 DEF Serving
  <2>3. InUse' \subseteq InUse \union {told}
    BY <2>1 DEF InUse
  <2> QED
    BY <2>1, <2>2, <2>3 DEF KeepsNames
<1>6. CASE ~(NodeProbes /\ Reachable(told))
  <2>1. InUse' \subseteq InUse
    <3>1. CASE NodeDials
      BY <3>1 DEF NodeDials, redirectIfMoved, InUse
    <3>2. CASE NodeProbes
      BY <1>6, <3>2 DEF NodeProbes, InUse
    <3>3. CASE NodeWrites
      BY <3>3 DEF NodeWrites, InUse
    <3>4. CASE NodeMoves
      BY <3>4 DEF NodeMoves, InUse
    <3>5. CASE NodeStarts
      BY <3>5 DEF NodeStarts, InUse
    <3>6. CASE ConnectionLost \/ NodeStops
      BY <3>6 DEF ConnectionLost, NodeStops, InUse
    <3> QED
      BY <3>1, <3>2, <3>3, <3>4, <3>5, <3>6 DEF NodeSteps
  <2>2. url = domains.Domain /\ env = url /\ move = "idle" => url' = url /\ env' = url /\ move' = "idle"
    BY DEF NodeSteps, NodeDials, redirectIfMoved, NodeProbes, NodeWrites, NodeMoves, NodeStarts, ConnectionLost, NodeStops
  <2> QED
    BY <2>1, <2>2 DEF KeepsNames
<1> QED
  BY <1>5, <1>6

LEMMA KeepsNext ==
  ASSUME Considerate, Typed, Sticks, NodeSteady, KeepsNames, [Next]_vars PROVE KeepsNames'
<1>1. ASSUME \/ \E n \in Names : PointsHere(n) \/ Obtain(n)
             \/ UNCHANGED vars
      PROVE  KeepsNames'
  BY <1>1, KeepsStays DEF PointsHere, Obtain, vars, diskVars, panelVars, nodeVars, adminVars
<1> QED
  BY <1>1, ConsiderateInTurn, FormsKeep, PanelKeeps, FinisherKeeps, NodeKeeps DEF Next

\* Old names keep doing what they did until they are retired: through changes, upgrades,
\* restarts and lost connections, what the node dials now, and what it would dial after a
\* restart, has a certificate and carries the node channel, and every link is answered.
THEOREM NamesKeepWorking == ASSUME Considerate PROVE Spec => []KeepsItsJob
<1> DEFINE IInv == Typed /\ Sticks /\ NodeSteady /\ KeepsNames
<1>1. Init => IInv
  BY TypedInit, SticksInit, SteadyInit, KeepsInit
<1>2. IInv /\ [Next]_vars => IInv'
  BY TypedNext, SticksNext, ConsiderateInTurn, SteadyNext, KeepsNext
<1>3. IInv => KeepsItsJob
  <2> SUFFICES ASSUME IInv, Serving PROVE KeepsItsJob
    BY DEF KeepsItsJob
  <2>1. {url, env} \subseteq NodeNames(domains) \cap certs /\ links \subseteq LinksOf(domains)
    BY DEF KeepsNames, InUse, Serving
  <2>2. LinksOf(domains) \subseteq LinkNames(domains)
    BY LinksAnswered DEF Typed, PanelTyped, WellFormed, Serving
  <2> QED
    BY <2>1, <2>2 DEF KeepsItsJob
<1> QED
  BY <1>1, <1>2, <1>3, PTL DEF Spec
=============================================================================
