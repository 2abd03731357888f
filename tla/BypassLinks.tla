----------------------------- MODULE BypassLinks -----------------------------
(***************************************************************************)
(* The settings of a stored connection and the commands that change them:  *)
(* `connection config`, `connection refresh` and `connection add --force`  *)
(* (connection_cli.rs) with the daemon's handlers (dispatch.rs).           *)
(*                                                                         *)
(* A command is several requests, and other commands come in between; each *)
(* request runs under the record's lock, so it is one step here (module    *)
(* Connections takes the locks and the tunnel's start apart).  A record    *)
(* keeps the AllowedIPs of its configuration, its LAN bypass links (module *)
(* LinkRules) and its DNS switch; a helper runs with what the record said  *)
(* when it was started.  The configuration's identity is its AllowedIPs,   *)
(* every record here has the same name and owner, and link text that does  *)
(* not parse is not given.                                                 *)
(***************************************************************************)
EXTENDS LinkRules

CONSTANTS
  Clients,       \* wgd commands that may run at the same time
  Configs,       \* AllowedIPs of the configuration files that are submitted
  Options,       \* option lists `connection config` is run with
  None,
  MaxIds,        \* connections that are ever added
  MaxCommands,   \* commands that are run
  MaxEvents,     \* connects and disconnects by a user or the session agent
  MaxFaults      \* requests that fail and commands that are interrupted

Ids == 1..MaxIds

ASSUME BypassLinksAssumption ==
  /\ MaxIds \in Nat \ {0} /\ MaxCommands \in Nat /\ MaxEvents \in Nat /\ MaxFaults \in Nat
  /\ None \notin Configs /\ None \notin Ids /\ \A allowed \in Configs : allowed \in Seq(Networks)
  /\ \A o \in Options :
       /\ {o.merge, o.apply} \subseteq BOOLEAN /\ o.dns \in BOOLEAN \cup {None}
       /\ o.links # None \/ o.dns # None
       /\ o.links # None => o.links \in Links /\ \A i \in DOMAIN o.links : o.links[i].bypass # {}

VARIABLES
  record,      \* the connection store
  helper,      \* the settings of the running helper, or None
  cli,         \* the commands that run
  commands,    \* commands still to come
  events,      \* connects and disconnects still to come
  faults       \* failures still to come

bounds == <<commands, events, faults>>
vars == <<record, helper, cli, commands, events, faults>>


(* The part of StoredConnection this is about.                             *)
Record == [state : {"unused", "stored", "removed"}, allowed : Configs \cup {None},
           links : Links, dns : BOOLEAN]
NoRecord == [state |-> "unused", allowed |-> None, links |-> <<>>, dns |-> FALSE]

(* What a ConnectionSummary tells a command.                               *)
Settable == [links : Links, dns : BOOLEAN]
Settings(r) == [links |-> r.links, dns |-> r.dns]

Places == {"idle", "links", "dns", "after", "reconnect", "refresh", "add", "list",
           "keepDns", "keepLinks", "carry", "disconnect", "remove"}

(* What a command knows: the record it works on, its argument (links,      *)
(* merge for --add-link, dns, apply, file), whether the user has           *)
(* authenticated for the request it is about to send again, what it read   *)
(* before, the same-name records it listed and the one of them whose links *)
(* it carries over.  raced: another command has written to the record in   *)
(* the meantime (it cannot know that).                                     *)
Command ==
  [pc : Places, id : Ids \cup {None}, file : Configs \cup {None}, links : Links \cup {None},
   merge : BOOLEAN, dns : BOOLEAN \cup {None}, apply : BOOLEAN, form : BOOLEAN,
   before : Settable \cup {None}, stale : [Ids -> Settable \cup {None}],
   donor : Ids \cup {None}, raced : BOOLEAN]
NoCommand == [pc |-> "idle", id |-> None, file |-> None, links |-> None, merge |-> FALSE,
              dns |-> None, apply |-> FALSE, form |-> FALSE, before |-> None,
              stale |-> [i \in Ids |-> None], donor |-> None, raced |-> FALSE]

(* Commands that run, tunnels that are up, one owner's records.            *)
TypeOK ==
  /\ record \in [Ids -> Record] /\ helper \in [Ids -> Record \cup {None}]
  /\ cli \in [Clients -> Command]
  /\ \A i \in Ids : /\ record[i].state = "stored" <=> record[i].allowed # None
                    /\ helper[i] # None => record[i].state = "stored"
  /\ commands \in 0..MaxCommands /\ events \in 0..MaxEvents /\ faults \in 0..MaxFaults

Stored(i) == record[i].state = "stored"

(* StoredConnection::allowed_ips.                                          *)
AllowedIps(r) == ToSet(r.allowed)

(* connect: a helper is given the links that are valid for the AllowedIPs  *)
(* as they are now, in its environment.                                    *)
Started(r) == [r EXCEPT !.links = ValidLinks(r.links, AllowedIps(r))]

Init ==
  /\ \E allowed \in Configs, links \in {o.links : o \in Options} \ {None} :
       /\ AllValid(links, ToSet(allowed))
       /\ record = [i \in Ids |->
            IF i = 1 THEN [state |-> "stored", allowed |-> allowed, dns |-> FALSE,
                           links |-> Canonical(links)]
            ELSE NoRecord]
  /\ \E up \in BOOLEAN :
       helper = [i \in Ids |-> IF up /\ i = 1 THEN Started(record[i]) ELSE None]
  /\ cli = [c \in Clients |-> NoCommand]
  /\ commands = MaxCommands /\ events = MaxEvents /\ faults = MaxFaults

-----------------------------------------------------------------------------
Fault == faults > 0 /\ faults' = faults - 1

(* The command goes on to p, and record i (if it is one) has been written. *)
Goes(c, p, i) ==
  cli' = [d \in Clients |->
            IF d = c THEN (IF p = "idle" THEN NoCommand ELSE [cli[c] EXCEPT !.pc = p])
            ELSE [cli[d] EXCEPT !.raced = @ \/ (i # None /\ cli[d].id = i)]]

Ends(c) == Goes(c, "idle", None) /\ UNCHANGED <<record, helper>>

At(c, p) == cli[c].pc = p /\ UNCHANGED <<commands, events>>

(* The daemon's answer NotFound.                                           *)
NotFound(c) == ~Stored(cli[c].id) /\ Ends(c) /\ UNCHANGED faults

(* A request is not answered (the record is busy, the disk is full, the    *)
(* daemon gone), the prompt is cancelled, the command interrupted.         *)
Fails(c) == cli[c].pc # "idle" /\ Fault /\ Ends(c) /\ UNCHANGED <<commands, events>>

(* require_admin_auth: the request carries an authenticated form.          *)
RequireAdminAuth(c) == cli[c].form

(* send_with_admin_auth_retry: answered AuthRequired, the command asks the *)
(* user to authenticate and sends the request once more.                   *)
Authenticate(c) ==
  /\ cli' = [cli EXCEPT ![c].form = TRUE]
  /\ UNCHANGED <<record, helper, faults>>

Begin(c, command) ==
  /\ cli[c].pc = "idle"
  /\ commands > 0 /\ commands' = commands - 1
  /\ cli' = [cli EXCEPT ![c] = command]
  /\ UNCHANGED <<record, helper, events, faults>>

-----------------------------------------------------------------------------
(* parse_links, parse_link_spec: host bits are cleared.                    *)
ParseLinks(links) == IF links = None THEN None ELSE Canonical(links)

(* cmd_config: parse, then read the record as it is.                       *)
CmdConfig(c) ==
  \E i \in Ids, o \in Options :
    /\ Stored(i)
    /\ Begin(c, [NoCommand EXCEPT
         !.pc = "links", !.id = i, !.merge = o.merge, !.dns = o.dns, !.apply = o.apply,
         !.links = ParseLinks(o.links),
         !.before = Settings(record[i])])

(* The links --set-link stores, or --add-link: added to those read before. *)
LinksToSet(c) == IF cli[c].merge THEN MergeLinks(cli[c].before.links, cli[c].links)
                 ELSE cli[c].links

(* handle_set_connection_bypass_links.                                     *)
SetBypassLinks(i, links) ==
  /\ AllValid(links, AllowedIps(record[i]))
  /\ record' = [record EXCEPT ![i].links = Canonical(links)]
  /\ UNCHANGED <<helper, faults>>

(* Links first: a refusal leaves the DNS switch alone.                     *)
ConfigLinks(c) ==
  /\ At(c, "links")
  /\ LET i == cli[c].id IN
     \/ cli[c].links = None /\ Goes(c, "dns", None) /\ UNCHANGED <<record, helper, faults>>
     \/ cli[c].links # None /\ NotFound(c)
     \/ /\ cli[c].links # None /\ Stored(i)
        /\ SetBypassLinks(i, LinksToSet(c))
        /\ Goes(c, "dns", i)
     \/ /\ cli[c].links # None /\ Stored(i)
        /\ ~AllValid(LinksToSet(c), AllowedIps(record[i]))
        /\ Ends(c) /\ UNCHANGED faults

(* handle_set_connection_dns_dynamic_store.                                *)
SetDns(i, enabled) ==
  /\ record' = [record EXCEPT ![i].dns = enabled]
  /\ UNCHANGED <<helper, faults>>

ConfigDns(c) ==
  /\ At(c, "dns")
  /\ LET i == cli[c].id IN
     \/ cli[c].dns = None /\ Goes(c, "after", None) /\ UNCHANGED <<record, helper, faults>>
     \/ cli[c].dns # None /\ NotFound(c)
     \/ cli[c].dns # None /\ Stored(i) /\ SetDns(i, cli[c].dns) /\ Goes(c, "after", i)

LinksChanged(c) == record[cli[c].id].links # cli[c].before.links  \* mutant: not the DNS switch

(* The settings are not what the command read before.                      *)
Changed(c) == \/ record[cli[c].id].links # cli[c].before.links
              \/ record[cli[c].id].dns # cli[c].before.dns

ConfigAfter(c) ==
  /\ At(c, "after")
  /\ \/ NotFound(c)
     \/ /\ Stored(cli[c].id)
        /\ Goes(c, IF helper[cli[c].id] # None /\ Changed(c) /\ cli[c].apply
                   THEN "reconnect" ELSE "idle", None)
        /\ UNCHANGED <<record, helper, faults>>

(* ReconnectConnection: down and up under one lock, and only if it is up.  *)
(* If it does not come up again it stays down.                             *)
Reconnect(c) ==
  /\ At(c, "reconnect")
  /\ LET i == cli[c].id IN
     \/ helper[i] = None /\ Ends(c) /\ UNCHANGED faults
     \/ /\ helper[i] # None
        /\ \/ helper' = [helper EXCEPT ![i] = Started(record[i])] /\ UNCHANGED faults
           \/ helper' = [helper EXCEPT ![i] = None] /\ Fault
        /\ Goes(c, "idle", None)
        /\ UNCHANGED record

-----------------------------------------------------------------------------
(* cmd_refresh.                                                            *)
CmdRefresh(c) ==
  \E i \in Ids, file \in Configs :
    /\ Stored(i)
    /\ Begin(c, [NoCommand EXCEPT !.pc = "refresh", !.id = i, !.file = file])

WithConfig(file) == {i \in Ids : Stored(i) /\ record[i].allowed = file}

(* The new configuration and the links it supports, in one update.         *)
Refreshed(r, file) == [r EXCEPT !.allowed = file, !.links = PruneLinks(r.links, ToSet(file))]

(* refresh_connection: unchanged, a duplicate, not authenticated; or the   *)
(* tunnel goes down, the record is written, and the tunnel comes up again. *)
(* A failure of either leaves it down.                                     *)
RefreshConnection(c) ==
  /\ At(c, "refresh")
  /\ LET i == cli[c].id  file == cli[c].file  new == Refreshed(record[i], file) IN
     \/ NotFound(c)
     \/ Stored(i) /\ WithConfig(file) # {} /\ Ends(c) /\ UNCHANGED faults
     \/ Stored(i) /\ WithConfig(file) = {} /\ ~RequireAdminAuth(c) /\ Authenticate(c)
     \/ /\ Stored(i) /\ WithConfig(file) = {} /\ RequireAdminAuth(c)
        /\ \/ /\ record' = [record EXCEPT ![i] = new]
              /\ \/ /\ helper' = [helper EXCEPT ![i] = IF @ = None THEN None ELSE Started(new)]
                    /\ UNCHANGED faults
                 \/ helper[i] # None /\ helper' = [helper EXCEPT ![i] = None] /\ Fault
           \/ /\ helper[i] # None /\ helper' = [helper EXCEPT ![i] = None] /\ Fault
              /\ UNCHANGED record
        /\ Goes(c, "idle", i)

-----------------------------------------------------------------------------
(* cmd_add with --force (while there are connections left to add).         *)
CmdAdd(c) ==
  /\ Cardinality({i \in Ids : record[i].state = "unused"})
       > Cardinality({d \in Clients : cli[d].pc = "add"})
  /\ \E file \in Configs : Begin(c, [NoCommand EXCEPT !.pc = "add", !.file = file])

(* AddConnection: the record that has this configuration, or a new one.    *)
AddConnection(c) ==
  /\ At(c, "add")
  /\ LET file == cli[c].file
         fresh == {i \in Ids : record[i].state = "unused"}
         Use(i) == cli' = [cli EXCEPT ![c].id = i, ![c].pc = "list", ![c].form = FALSE]
     IN \/ \E i \in WithConfig(file) : Use(i) /\ UNCHANGED <<record, helper, faults>>
        \/ WithConfig(file) = {} /\ fresh # {} /\ ~RequireAdminAuth(c) /\ Authenticate(c)
        \/ /\ WithConfig(file) = {} /\ RequireAdminAuth(c)
           /\ \E i \in fresh :
                /\ \A j \in fresh : i <= j
                /\ record' = [record EXCEPT ![i] = [state |-> "stored", allowed |-> file,
                                                    links |-> <<>>, dns |-> FALSE]]
                /\ Use(i)
           /\ UNCHANGED <<helper, faults>>

(* The records that share the name and are not the command's.              *)
StaleIds(c) == {i \in Ids : Stored(i) /\ i # cli[c].id}

ListStale(c) ==
  /\ At(c, "list")
  /\ cli' = [cli EXCEPT ![c].pc = "keepDns",
                            ![c].stale = [i \in Ids |-> IF i \in StaleIds(c)
                                                        THEN Settings(record[i]) ELSE None]]
  /\ UNCHANGED <<record, helper, faults>>

Listed(c) == {j \in Ids : cli[c].stale[j] # None}

(* The DNS path the user chose is kept.                                    *)
KeepDns(c) ==
  /\ At(c, "keepDns")
  /\ LET wanted == \E j \in Listed(c) : cli[c].stale[j].dns  i == cli[c].id IN
     \/ ~wanted /\ Goes(c, "keepLinks", None) /\ UNCHANGED <<record, helper, faults>>
     \/ wanted /\ NotFound(c)
     \/ wanted /\ Stored(i) /\ SetDns(i, TRUE) /\ Goes(c, "keepLinks", i)

HasLinks(c) == {j \in Listed(c) : cli[c].stale[j].links # <<>>}

(* carry_over_links, of the first listed record that has links: what the   *)
(* new record's AllowedIPs support.                                        *)
KeepLinks(c) ==
  /\ At(c, "keepLinks")
  /\ \/ HasLinks(c) = {} /\ Goes(c, "disconnect", None) /\ UNCHANGED <<record, helper, faults>>
     \/ HasLinks(c) # {} /\ NotFound(c)
     \/ /\ HasLinks(c) # {} /\ Stored(cli[c].id)
        /\ \E j \in HasLinks(c) :
             LET pruned == PruneLinks(cli[c].stale[j].links, AllowedIps(record[cli[c].id]))
             IN  cli' = [cli EXCEPT ![c].links = pruned, ![c].donor = j,
                                    ![c].pc = IF pruned = <<>> THEN "disconnect" ELSE "carry"]
        /\ UNCHANGED <<record, helper, faults>>

(* ... and they are stored, or the command stops before anything is        *)
(* removed.                                                                *)
CarryLinks(c) ==
  /\ At(c, "carry")
  /\ LET i == cli[c].id IN
     \/ NotFound(c)
     \/ Stored(i) /\ SetBypassLinks(i, cli[c].links) /\ Goes(c, "disconnect", i)
     \/ /\ Stored(i) /\ ~AllValid(cli[c].links, AllowedIps(record[i]))
        /\ Ends(c) /\ UNCHANGED faults

(* disconnect_and_remove_stale, of one record after the other: down ...    *)
StaleDone(c, j) ==
  cli' = [d \in Clients |->
            IF d = c THEN [cli[c] EXCEPT !.pc = "disconnect", !.form = FALSE,
                                         !.stale[j] = None]
            ELSE [cli[d] EXCEPT !.raced = @ \/ cli[d].id = j]]

(* The list is worked off in its order.                                    *)
NextStale(c) == {j \in Listed(c) : \A k \in Listed(c) : j <= k}

DisconnectStale(c) ==
  /\ At(c, "disconnect")
  /\ \/ Listed(c) = {} /\ Ends(c) /\ UNCHANGED faults
     \/ \E j \in NextStale(c) :
          \/ ~Stored(j) /\ StaleDone(c, j) /\ UNCHANGED <<record, helper, faults>>
          \/ /\ Stored(j)
             /\ helper' = [helper EXCEPT ![j] = None]
             /\ Goes(c, "remove", None)
             /\ UNCHANGED <<record, faults>>

(* ... and away.  Somebody may have connected it since (the session agent, *)
(* once per start): Busy, and both are done again.                         *)
RemoveStale(c) ==
  /\ At(c, "remove")
  /\ \E j \in NextStale(c) :
       \/ ~Stored(j) /\ StaleDone(c, j) /\ UNCHANGED <<record, helper, faults>>
       \/ /\ Stored(j) /\ helper[j] # None
          /\ cli' = [cli EXCEPT ![c].pc = "disconnect", ![c].form = FALSE]
          /\ UNCHANGED <<record, helper, faults>>
       \/ Stored(j) /\ helper[j] = None /\ ~RequireAdminAuth(c) /\ Authenticate(c)
       \/ /\ Stored(j) /\ helper[j] = None /\ RequireAdminAuth(c)
          /\ record' = [record EXCEPT ![j] = [NoRecord EXCEPT !.state = "removed"]]
          /\ StaleDone(c, j)
          /\ UNCHANGED <<helper, faults>>

-----------------------------------------------------------------------------
(* ConnectConnection by a user or the session agent; of a tunnel that is   *)
(* up it changes nothing.                                                  *)
Connect(i) ==
  /\ events > 0 /\ events' = events - 1
  /\ Stored(i) /\ helper[i] = None
  /\ helper' = [helper EXCEPT ![i] = Started(record[i])]
  /\ UNCHANGED <<record, cli, commands, faults>>

Disconnect(i) ==
  /\ events > 0 /\ events' = events - 1
  /\ helper[i] # None
  /\ helper' = [helper EXCEPT ![i] = None]
  /\ UNCHANGED <<record, cli, commands, faults>>

Step(c) ==
  \/ ConfigLinks(c) \/ ConfigDns(c) \/ ConfigAfter(c) \/ Reconnect(c) \/ RefreshConnection(c)
  \/ AddConnection(c) \/ ListStale(c) \/ KeepDns(c) \/ KeepLinks(c) \/ CarryLinks(c)
  \/ DisconnectStale(c) \/ RemoveStale(c)

Next ==
  \/ \E c \in Clients : CmdConfig(c) \/ CmdRefresh(c) \/ CmdAdd(c) \/ Step(c) \/ Fails(c)
  \/ \E i \in Ids : Connect(i) \/ Disconnect(i)

Spec == Init /\ [][Next]_vars

-----------------------------------------------------------------------------
(* "A record never holds links its config contradicts": no order of        *)
(* refreshes and link changes leaves a link the daemon would refuse.       *)
StoredIsValid == \A i \in Ids : Stored(i) => AllValid(record[i].links, AllowedIps(record[i]))

(* What a link promises, of every tunnel that is up: with the Mac attached *)
(* to a network the anchor lies in, no route of the tunnel takes an        *)
(* address of a bypass prefix, be it through a broader entry or a narrower *)
(* one (check_prefix and macos_route_excluded_by_link together).           *)
BypassIsOff ==
  \A i \in Ids : helper[i] # None =>
    \A k \in DOMAIN helper[i].links :
      LET link == helper[i].links[k] IN
      \A lan \in {link.anchor, DefaultRoute} :
        LET routes == {dest \in ToSet(AllowedRoutes(helper[i].allowed)) :
                         Tunnelled(dest, {lan}, helper[i].links)}
        IN  \A prefix \in link.bypass : \A ip \in AddressesOf(prefix) :
              ~\E dest \in routes : SubnetContains(dest, Host(ip))

(* The prefixes of these links that are valid by themselves.               *)
Supported(links, allowed) ==
  UNION {{<<link.anchor, prefix>> :
            prefix \in {p \in link.bypass :
                          AllValid(<<[anchor |-> link.anchor, bypass |-> {p}]>>, allowed)}}
         : link \in ToSet(links)}

(* A refresh takes away no more than what the new configuration            *)
(* contradicts: a link that loses one prefix keeps the others.             *)
RefreshKeepsSupported ==
  [][\A i \in Ids : Stored(i) /\ record'[i].state = "stored"
                      /\ record'[i].allowed # record[i].allowed =>
       Supported(record[i].links, AllowedIps(record'[i]))
         = Supported(record'[i].links, AllowedIps(record'[i]))]_vars

(* `add --force` removes a record only when its DNS switch and its links   *)
(* (those the new AllowedIPs support) are in the record that replaces it,  *)
(* however often the command was interrupted and run again, unless another *)
(* command has written to either record since.  Of several records with    *)
(* the name only the links of one, the donor, are carried over.            *)
ForceKeepsSettings ==
  [][\A c \in Clients, j \in Ids :
       LET new == record'[cli[c].id] IN
       (/\ cli[c].pc = "remove" /\ cli'[c].pc = "disconnect"
        /\ Stored(j) /\ record'[j].state = "removed"
        /\ ~cli[c].raced /\ Settings(record[j]) = cli[c].stale[j]) =>
         /\ j = cli[c].donor => Supported(record[j].links, AllowedIps(new))
                                   \subseteq Supported(new.links, AllowedIps(new))
         /\ record[j].links # <<>> => cli[c].donor # None
         /\ record[j].dns => new.dns]_vars

(* `connection config` without --no-apply: when the command ends and no    *)
(* other has written to the record since it began, the change it made is   *)
(* what the tunnel runs with, if it is up; whatever was connected and      *)
(* disconnected in between.                                                *)
ChangeIsApplied ==
  [][\A c \in Clients :
       LET i == cli[c].id IN
       (/\ cli[c].pc \in {"after", "reconnect"} /\ cli'[c].pc = "idle"
        /\ cli[c].apply /\ ~cli[c].raced /\ faults' = faults
        /\ Stored(i) /\ Settings(record[i]) # cli[c].before) =>
         helper'[i] = None \/ helper'[i] = Started(record[i])]_vars

(* Types, that no record contradicts its configuration, and that what      *)
(* validate_links lets through keeps its promise in the tunnels that run.  *)
LinksInv == TypeOK /\ StoredIsValid /\ BypassIsOff

(* refresh_connection and `add --force` keep the settings that the new     *)
(* configuration supports, when interrupted and run again too.             *)
SettingsKept == RefreshKeepsSupported /\ ForceKeepsSettings
=============================================================================
