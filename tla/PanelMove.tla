------------------------------ MODULE PanelMove ------------------------------
(***************************************************************************)
(* A panel that changes its name: panel/internal/web/panel_domain.go and   *)
(* acme.go, hub.SetPanelHost and redirectIfMoved, service.MovePanelHost,   *)
(* the start of panel/cmd/panel/main.go, and node/internal/link/move.go.   *)
(*                                                                         *)
(* The unit's flags say which names the panel answers to; a change made on *)
(* the settings page is saved in the database and wins over them while the *)
(* unit says what it said then, or what was saved.  A change restarts the  *)
(* panel, which serves the new names and the old ones.  Once the new name  *)
(* has its certificate, whatever named the panel's own server follows it:  *)
(* the certificate the local node serves, that node's address, and its     *)
(* inbounds' server names.  A node that dials an old name is told the new  *)
(* one, tries it, writes it down and then uses it.                         *)
(*                                                                         *)
(* External: DNS, the certificate authority, systemd, the installer, and   *)
(* the administrator.  One node is modelled: no two of them interact here. *)
(* A unit edited by hand, nodes too old for panel_url, and a node without  *)
(* an environment file are left out.                                       *)
(***************************************************************************)
EXTENDS Integers, FiniteSets, TLC

CONSTANTS
  Names,          \* host names
  First,          \* the panel's name when it was installed
  MaxChanges,     \* changes and retirements asked for
  MaxUpgrades,
  MaxFaults,      \* stops, lost connections, files and rows that cannot be read or written
  Circumstances   \* see Careful, CarefulChange, postRetireOldDomains, Unread, FinishRelinks

None == "none"

ASSUME PanelMoveAssumption ==
  /\ None \notin Names /\ First \in Names
  /\ MaxChanges \in Nat /\ MaxUpgrades \in Nat /\ MaxFaults \in Nat
  /\ Circumstances \subseteq
       {"links_on_panel", "panel_as_sub", "same_process", "after_upgrade", "before_restart", "at_once",
        "env_behind", "retires_early", "relink_fails", "leaves_out", "start_unread", "finish_unread"}

VARIABLES
  \* on disk: the saved change, the unit's flags, panel.env, the names that
  \* have a certificate, the one that each of cert.pem and key.pem is linked
  \* to, and what the records of the panel's own server name
  saved, unit, panelEnv, certs, certLink, host,
  \* the process: its phase, the names it was started with, FinishDomainMove
  \* and what that has read back
  panel, domains, finisher, latest,
  dns,            \* names that resolve to the panel's server
  \* the node: running, its address of the panel in memory and in node.env,
  \* the name its connection dialed, the name it was told, how far movePanel is,
  \* and whether this session's panel_url was answered with an error, or never
  \* sent because of one
  nodeUp, url, env, conn, told, move, unmoved,
  \* history: the names last asked for, names in links that were handed out
  wanted, links,
  changes, upgrades, faults

diskVars   == <<saved, unit, panelEnv, certs, certLink, host>>
panelVars  == <<panel, domains, finisher, latest>>
nodeVars   == <<nodeUp, url, env, conn, told, move, unmoved>>
adminVars  == <<wanted, links>>
countVars  == <<changes, upgrades, faults>>
vars       == <<diskVars, panelVars, dns, nodeVars, adminVars, countVars>>

Name    == Names \union {None}
Records == {"node", "inbound"}
Pems    == {"cert.pem", "key.pem"}

Fault == faults < MaxFaults /\ faults' = faults + 1

PanelDomains ==
  [Domain : Name, SubDomain : Name, FlagDomain : Name, FlagSub : Name,
   OldPanel : SUBSET Names, OldSub : SUBSET Names, MoveHostFrom : Name]

Flags(d, s) ==
  [Domain |-> d, SubDomain |-> s, FlagDomain |-> d, FlagSub |-> s,
   OldPanel |-> {}, OldSub |-> {}, MoveHostFrom |-> None]

Unsaved == Flags(None, None)

(***************************************************************************)
(* Names                                                                   *)
(***************************************************************************)

\* A plausible bug: a unit that has caught up with the change is not known.
ResolveDomainsUntilUpgrade ==
  IF unit = <<saved.FlagDomain, saved.FlagSub>> THEN saved ELSE Flags(unit[1], unit[2])

ResolveDomains ==
  LET unitUnchanged == unit = <<saved.FlagDomain, saved.FlagSub>>
      unitCaughtUp  == unit = <<saved.Domain, saved.SubDomain>>
  IN  IF unitUnchanged \/ unitCaughtUp THEN saved ELSE Flags(unit[1], unit[2])

\* d after moving to the panel name n and the subscription name s.
changeDomains(d, n, s) ==
  LET moves    == n # d.Domain
      oldPanel == IF moves THEN {d.Domain} ELSE {}
      oldSub   == {x \in Names : \/ x = d.Domain /\ moves /\ d.SubDomain = None
                                 \/ x = d.SubDomain /\ x # s}
      from     == IF moves /\ d.MoveHostFrom = None THEN d.Domain ELSE d.MoveHostFrom
  IN  [d EXCEPT !.Domain = n, !.SubDomain = s,
                !.OldPanel = (@ \union oldPanel) \ {n, s},
                !.OldSub = (@ \union oldSub) \ {n, s},
                !.MoveHostFrom = IF from = n THEN None ELSE from]

Old(d)    == d.OldPanel \union d.OldSub
Served(d) == ({d.Domain, d.SubDomain} \ {None}) \union Old(d)

isSubscriptionHost(d, n) == n \in {d.SubDomain} \union d.OldSub

\* Names that carry the node channel, and names that answer /sub/.
NodeNames(d) == {n \in Served(d) : isSubscriptionHost(d, n) => n \in d.OldPanel}
LinkNames(d) == {n \in Served(d) : d.SubDomain = None \/ isSubscriptionHost(d, n)}

\* subscriptionOrigin: the name in a link handed out now.
Origin(d) == IF d.SubDomain # None THEN d.SubDomain ELSE d.Domain

Serving == panel \in {"serving", "leaving"}

Reachable(n) == Serving /\ n \in NodeNames(domains) /\ n \in certs

(***************************************************************************)
(* The administrator                                                       *)
(***************************************************************************)

Init ==
  \E s \in Name \ {First} :
    /\ saved = Unsaved /\ unit = <<First, s>> /\ panelEnv = unit
    /\ certs = Served(Flags(First, s)) /\ certLink = [f \in Pems |-> First]
    /\ host = [r \in Records |-> First]
    /\ panel = "serving" /\ domains = Flags(First, s) /\ finisher = "none" /\ latest = Unsaved
    /\ dns = certs
    /\ nodeUp = TRUE /\ url = First /\ env = First /\ conn = First /\ told = None /\ move = "idle" /\ unmoved = FALSE
    /\ wanted = unit /\ links = {Origin(domains)}
    /\ changes = 0 /\ upgrades = 0 /\ faults = 0

\* A form is not sent in the two seconds before a restart it has already
\* caused, nor between FinishDomainMove's reading and its saving.
Careful ==
  /\ panel = "leaving" => "before_restart" \in Circumstances
  /\ finisher = "save" => "at_once" \in Circumstances

\* "links_on_panel": a name with links becomes, or stays, the panel's while
\* subscriptions get a name of their own; "panel_as_sub": a name nodes dial is
\* taken for the subscriptions; "same_process": a process that began with
\* records to move changes its name again; "after_upgrade": the unit no longer
\* says what it said at the last change.
CarefulChange(n, s) ==
  /\ (s # None /\ n \in LinkNames(domains)) => "links_on_panel" \in Circumstances
  /\ s \in NodeNames(domains) => "panel_as_sub" \in Circumstances
  /\ (n # domains.Domain /\ domains.MoveHostFrom # None) => "same_process" \in Circumstances
  /\ unit # <<domains.FlagDomain, domains.FlagSub>> => "after_upgrade" \in Circumstances

\* The form counts from the names the process was started with.
postDomain(n, s, skip_dns) ==
  /\ Serving /\ changes < MaxChanges
  /\ Careful /\ CarefulChange(n, s)
  /\ n # s /\ <<n, s>> # <<domains.Domain, domains.SubDomain>>
  /\ skip_dns \/ ({n, s} \ {None}) \ Served(domains) \subseteq dns
  /\ saved' = changeDomains(domains, n, s)
  /\ \/ panelEnv' = <<n, s>> /\ UNCHANGED faults
     \/ \* writePanelEnv fails, or the panel stops first
        /\ Fault
        /\ panelEnv # unit => "env_behind" \in Circumstances
        /\ UNCHANGED panelEnv
  /\ panel' = "leaving"
  /\ wanted' = <<n, s>> /\ changes' = changes + 1
  /\ UNCHANGED <<unit, certs, certLink, host, domains, finisher, latest, dns, nodeVars, links, upgrades>>

\* The page counts the nodes connected through another name than Domain, and
\* a node that is not connected is not counted.
postRetireOldDomains ==
  /\ Serving /\ changes < MaxChanges
  /\ Careful
  /\ conn # domains.Domain => "retires_early" \in Circumstances
  /\ Old(domains) # {}
  /\ saved' = [domains EXCEPT !.OldPanel = {}, !.OldSub = {}]
  /\ panel' = "leaving"
  /\ links' = links \ Old(domains) /\ changes' = changes + 1
  /\ UNCHANGED <<unit, panelEnv, certs, certLink, host, domains, finisher, latest, dns, nodeVars, wanted, upgrades, faults>>

PointsHere(n) ==
  /\ n \in {wanted[1], wanted[2]} \ {None} /\ n \notin dns
  /\ dns' = dns \union {n}
  /\ UNCHANGED <<diskVars, panelVars, nodeVars, adminVars, countVars>>

(***************************************************************************)
(* The panel                                                               *)
(***************************************************************************)

\* The process is gone, and with it every connection.
Gone ==
  /\ panel' = "down" /\ finisher' = "none" /\ latest' = Unsaved /\ domains' = Unsaved
  /\ conn' = None

PanelRestarts ==
  /\ panel = "leaving" /\ Gone
  /\ UNCHANGED <<diskVars, dns, nodeUp, url, env, told, move, unmoved, adminVars, countVars>>

PanelStops ==
  /\ panel # "down" /\ Fault /\ Gone
  /\ UNCHANGED <<diskVars, dns, nodeUp, url, env, told, move, unmoved, adminVars, changes, upgrades>>

\* The installer writes the unit again, from panel.env.
Upgrade ==
  /\ upgrades < MaxUpgrades /\ upgrades' = upgrades + 1
  /\ unit' = panelEnv /\ Gone
  /\ UNCHANGED <<saved, panelEnv, certs, certLink, host, dns, nodeUp, url, env, told, move, unmoved, adminVars, changes, faults>>

\* The setting cannot be read; where that matters, it takes the circumstance.
Unread(instead, right, circumstance) == Fault /\ (instead # right => circumstance \in Circumstances)

PanelStarts ==
  /\ panel = "down" /\ panel' = "starting"
  /\ \/ domains' = ResolveDomains /\ UNCHANGED faults
     \/ /\ domains' = Flags(unit[1], unit[2])
        /\ Unread(domains', ResolveDomains, "start_unread")
  /\ UNCHANGED <<diskVars, finisher, latest, dns, nodeVars, adminVars, changes, upgrades>>

\* Obtain, and certmagic's retries in the background after it.
Obtain(n) ==
  /\ panel # "down" /\ n \in Served(domains) \ certs /\ n \in dns
  /\ certs' = certs \union {n}
  /\ UNCHANGED <<saved, unit, panelEnv, certLink, host, panelVars, dns, nodeVars, adminVars, countVars>>

\* Obtain has returned, with every certificate or after four minutes.  Links
\* are handed out from here on; that somebody holds one is the worst case.
PanelServes ==
  /\ panel = "starting" /\ panel' = "serving"
  /\ finisher' = IF domains.MoveHostFrom = None THEN "none" ELSE "waiting"
  /\ links' = links \union {Origin(domains)}
  /\ UNCHANGED <<diskVars, domains, latest, dns, nodeVars, wanted, countVars>>

(***************************************************************************)
(* FinishDomainMove                                                        *)
(***************************************************************************)

\* relinkNodeCertificate replaces the local node's two links one after the other.
Relinks(f) ==
  /\ finisher = "waiting" /\ domains.Domain \in certs
  /\ certLink[f] # domains.Domain
  /\ certLink' = [certLink EXCEPT ![f] = domains.Domain]
  /\ UNCHANGED <<saved, unit, panelEnv, certs, host, panelVars, dns, nodeVars, adminVars, countVars>>

Relinked == \A f \in Pems : certLink[f] = domains.Domain

\* A plausible bug: the certificate is not waited for.
FinishRelinksAtOnce ==
  /\ finisher = "waiting" /\ finisher' = "node"
  /\ certLink' = [f \in Pems |-> domains.Domain]
  /\ UNCHANGED <<saved, unit, panelEnv, certs, host, panel, domains, latest, dns, nodeVars, adminVars, countVars>>

\* A plausible bug: the move is noted as done before it is.
FinishRelinksAndSettles ==
  /\ finisher = "waiting" /\ Relinked /\ domains.Domain \in certs /\ finisher' = "node"
  /\ saved' = IF saved.Domain = domains.Domain THEN [saved EXCEPT !.MoveHostFrom = None] ELSE saved
  /\ UNCHANGED <<unit, panelEnv, certs, certLink, host, panel, domains, latest, dns, nodeVars, adminVars, countVars>>

\* The new name has its certificate and the links go to it.  An error on the
\* way is only logged ("relink_fails"): the records follow all the same.
FinishRelinks ==
  /\ finisher = "waiting" /\ domains.Domain \in certs /\ finisher' = "node"
  /\ \/ Relinked /\ UNCHANGED faults
     \/ ~Relinked /\ "relink_fails" \in Circumstances /\ Fault
  /\ UNCHANGED <<diskVars, panel, domains, latest, dns, nodeVars, adminVars, changes, upgrades>>

\* MovePanelHost: node records, then inbounds, each a write of its own.  An
\* error ends the goroutine, before the row is written or (UpdateNode) after;
\* the move stays noted for the next start.
FinishMoves(r) ==
  LET moved == [host EXCEPT ![r] = IF @ = domains.MoveHostFrom THEN domains.Domain ELSE @]
  IN  /\ finisher = r
      /\ \/ host' = moved /\ finisher' = (IF r = "node" THEN "inbound" ELSE "read") /\ UNCHANGED faults
         \/ host' \in {host, moved} /\ finisher' = "failed" /\ Fault
      /\ UNCHANGED <<saved, unit, panelEnv, certs, certLink, panel, domains, latest, dns, nodeVars, adminVars,
                     changes, upgrades>>

\* The saved change is decoded over a copy of domains, and a field that is
\* empty is left out of what is saved (omitempty).
Decoded(field, empty, own) == IF field = empty THEN own ELSE field

Reread ==
  [saved EXCEPT !.SubDomain = Decoded(@, None, domains.SubDomain),
                !.FlagSub = Decoded(@, None, domains.FlagSub),
                !.OldPanel = Decoded(@, {}, domains.OldPanel),
                !.OldSub = Decoded(@, {}, domains.OldSub),
                !.MoveHostFrom = Decoded(@, None, domains.MoveHostFrom)]

\* "leaves_out": a form has emptied a field since the process began.
FinishReads ==
  /\ finisher = "read" /\ finisher' = "save"
  /\ \/ /\ Reread # saved => "leaves_out" \in Circumstances
        /\ latest' = Reread /\ UNCHANGED faults
     \/ latest' = domains /\ Unread(domains, saved, "finish_unread")
  /\ UNCHANGED <<diskVars, panel, domains, dns, nodeVars, adminVars, changes, upgrades>>

\* A plausible bug: what the process was started with is saved again.
FinishSavesItsOwn ==
  /\ finisher = "save" /\ finisher' = "none" /\ latest' = Unsaved
  /\ saved' = [domains EXCEPT !.MoveHostFrom = None]
  /\ UNCHANGED <<unit, panelEnv, certs, certLink, host, panel, domains, dns, nodeVars, adminVars, countVars>>

FinishSaves ==
  LET done == latest.MoveHostFrom = domains.MoveHostFrom /\ latest.Domain = domains.Domain
  IN  /\ finisher = "save" /\ latest' = Unsaved
      /\ \/ /\ finisher' = "none" /\ UNCHANGED faults
            /\ saved' = IF done THEN [latest EXCEPT !.MoveHostFrom = None] ELSE saved
         \/ done /\ finisher' = "failed" /\ Fault /\ UNCHANGED saved
      /\ UNCHANGED <<unit, panelEnv, certs, certLink, host, panel, domains, dns, nodeVars, adminVars,
                     changes, upgrades>>

(***************************************************************************)
(* The node                                                                *)
(***************************************************************************)

\* A node that dialed another name than the panel's own is told.
redirectIfMoved ==
  /\ unmoved' = FALSE
  /\ IF url = domains.Domain THEN UNCHANGED <<told, move>> ELSE told' = domains.Domain /\ move' = "told"

\* A session begins, and the panel answers the hello; if the push that comes
\* first fails, the node is not told.
NodeDials ==
  /\ nodeUp /\ conn = None /\ move = "idle" /\ Reachable(url)
  /\ conn' = url
  /\ \/ redirectIfMoved /\ UNCHANGED faults
     \/ Fault /\ url # domains.Domain /\ unmoved' = TRUE /\ UNCHANGED <<told, move>>
  /\ UNCHANGED <<diskVars, panelVars, dns, nodeUp, url, env, adminVars, changes, upgrades>>

\* movePanel probes the name it was told.
NodeProbes ==
  /\ move = "told"
  /\ IF Reachable(told)
     THEN move' = "probed" /\ UNCHANGED <<told, unmoved>>
     ELSE move' = "idle" /\ told' = None /\ unmoved' = TRUE
  /\ UNCHANGED <<diskVars, panelVars, dns, nodeUp, url, env, conn, adminVars, countVars>>

\* setEnv: written to another file and renamed, so it happens or it does not.
NodeWrites ==
  /\ move = "probed"
  /\ \/ env' = told /\ move' = "written" /\ UNCHANGED <<told, unmoved, faults>>
     \/ /\ Fault
        /\ move' = "idle" /\ told' = None /\ unmoved' = TRUE /\ UNCHANGED env
  /\ UNCHANGED <<diskVars, panelVars, dns, nodeUp, url, conn, adminVars, changes, upgrades>>

NodeMoves ==
  /\ move = "written" /\ move' = "idle"
  /\ url' = told /\ told' = None /\ conn' = None
  /\ UNCHANGED <<diskVars, panelVars, dns, nodeUp, env, unmoved, adminVars, countVars>>

\* The handler of a frame goes on when its connection is lost.
ConnectionLost ==
  /\ conn # None /\ Fault
  /\ conn' = None
  /\ UNCHANGED <<diskVars, panelVars, dns, nodeUp, url, env, told, move, unmoved, adminVars, changes, upgrades>>

NodeStops ==
  /\ nodeUp /\ Fault
  /\ nodeUp' = FALSE /\ conn' = None /\ told' = None /\ move' = "idle" /\ unmoved' = FALSE
  /\ UNCHANGED <<diskVars, panelVars, dns, url, env, adminVars, changes, upgrades>>

NodeStarts ==
  /\ ~nodeUp /\ nodeUp' = TRUE /\ url' = env
  /\ UNCHANGED <<diskVars, panelVars, dns, env, conn, told, move, unmoved, adminVars, countVars>>

-----------------------------------------------------------------------------

PanelSteps == PanelRestarts \/ PanelStarts \/ PanelServes
FinisherSteps ==
  \/ (\E f \in Pems : Relinks(f)) \/ FinishRelinks
  \/ (\E r \in Records : FinishMoves(r)) \/ FinishReads \/ FinishSaves
NodeSteps == NodeDials \/ NodeProbes \/ NodeWrites \/ NodeMoves \/ NodeStarts

Next ==
  \/ \E n \in Names, s \in Name, skip_dns \in BOOLEAN : postDomain(n, s, skip_dns)
  \/ postRetireOldDomains
  \/ \E n \in Names : PointsHere(n) \/ Obtain(n)
  \/ PanelSteps \/ PanelStops \/ Upgrade
  \/ FinisherSteps
  \/ NodeSteps \/ ConnectionLost \/ NodeStops

Spec == Init /\ [][Next]_vars

\* systemd starts the panel and the node again, and their goroutines run.  The
\* administrator who skipped the DNS check does point the name at the server,
\* and the authority then answers.
FairSpec ==
  /\ Spec
  /\ WF_vars(PanelSteps) /\ WF_vars(FinisherSteps) /\ WF_vars(NodeSteps)
  /\ \A n \in Names : WF_vars(PointsHere(n)) /\ WF_vars(Obtain(n))

(***************************************************************************)
(* Properties                                                              *)
(***************************************************************************)

\* The type invariant: every value in its range, FinishDomainMove only in a
\* process that was started with records to move, a name told while movePanel
\* runs and at no other time, certificates only for names that resolve here.
TypeOK ==
  /\ saved \in PanelDomains /\ domains \in PanelDomains /\ latest \in PanelDomains
  /\ unit \in Names \X Name /\ panelEnv \in Names \X Name /\ wanted \in Names \X Name
  /\ certs \subseteq dns /\ dns \subseteq Names /\ certLink \in [Pems -> certs]
  /\ host \in [Records -> Names] /\ links \subseteq Names
  /\ panel \in {"down", "starting", "serving", "leaving"}
  /\ finisher \in {"none", "failed", "waiting", "read", "save"} \union Records
  /\ finisher # "none" => Serving /\ domains.MoveHostFrom \in Names \ {domains.Domain}
  /\ nodeUp \in BOOLEAN /\ unmoved \in BOOLEAN
  /\ {url, env} \subseteq Names /\ conn \in {url, None}
  /\ move \in {"idle", "told", "probed", "written"} /\ (told = None) = (move = "idle") /\ told \in Name \ {url}
  /\ changes \in 0..MaxChanges /\ upgrades \in 0..MaxUpgrades /\ faults \in 0..MaxFaults

\* A name keeps doing what it did until it is retired ("Old names keep doing
\* what they did", "the old links keep working"): through changes, upgrades and restarts the
\* name a node dials, and the one it would dial after a restart, have a
\* certificate and carry the node channel, and every link handed out is still
\* answered.
KeepsItsJob ==
  Serving => /\ {url, env} \subseteq NodeNames(domains) \intersect certs
             /\ links \subseteq LinkNames(domains)

\* A change made on the settings page is what the panel comes up on, whatever
\* the installer, FinishDomainMove or a crash did since.
ChangeSticks ==
  panel \in {"starting", "serving"} => <<domains.Domain, domains.SubDomain>> = wanted

\* In the end everything is on the name last asked for: the panel, the local
\* node's address, its inbounds and the certificate they present, and the node
\* itself.  The records may be left behind by an error of MovePanelHost, and are
\* then noted for the next start; the node by an error of this session, its own
\* or the panel's, and is then connected through a name that still works.
Arrives ==
  <>[] /\ panel = "serving" /\ domains.Domain = wanted[1]
       /\ \A f \in Pems : certLink[f] = wanted[1]
       /\ \/ \A r \in Records : host[r] = wanted[1]
          \/ finisher = "failed" /\ saved = domains
       /\ conn # None /\ (conn = wanted[1] \/ unmoved)
=============================================================================
