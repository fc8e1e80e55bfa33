---------------------------- MODULE NetworkAdmin ----------------------------
(***************************************************************************)
(* The gateways and the ports of FreeSWITCH: a row of the database, a file  *)
(* that FreeSWITCH reads, and commands that make it read the file.  Every    *)
(* gateway's file is in the one directory that the profile "external"        *)
(* includes, whatever the profile of its row.                                *)
(***************************************************************************)
EXTENDS RoutingAdmin

CONSTANTS DefaultPorts,    \* the ports of a system whose ports were never set
          MaxLate          \* bound: commands given up that may still be obeyed

(* buildConfigFilename: the name and the id, both in the file's name.        *)
BuildConfigFilename(name, id) == <<name, id>>

WriteGateway(file, row) == [kind |-> "file", file |-> file, row |-> row]
Unlink(file) == [kind |-> "unlink", file |-> file]
WritePorts(ports) == [kind |-> "portsFile", ports |-> ports]
Command(name, arg, value) == [kind |-> "command", name |-> name, arg |-> arg, value |-> value]

RescanProfile(profile) == Command("rescan", Nil, profile)
KillGateway(profile, name) == Command("killgw", name, profile)
RestartProfile == Command("restart", Nil, Nil)
SetVar(var, value) == Command("global_setvar", var, value)

-----------------------------------------------------------------------------
(* Gateways.  They are managed without an account.                           *)

CreateGateway(w, r) ==
    LET file == BuildConfigFilename(r.dto.name, r.id)
        row == [name |-> r.dto.name, file |-> file, profile |-> New(r, "profile", "external")] IN
    /\ r.op = "createGateway"
    /\ \A g \in DOMAIN db.gateway : db.gateway[g].name # r.dto.name
    /\ Begin(w, r, << Tx(<< Save("gateway", r.id, [row EXCEPT !.file = Nil]) >>),
                      Tx(<< Save("gateway", r.id, row) >>),
                      WriteGateway(file, row), RescanProfile(row.profile) >>)

(* The row after an update: the file keeps its name unless the gateway gets  *)
(* another.                                                                  *)
Updated(r, now) ==
    LET name == New(r, "name", now.name) IN
    [name |-> name, profile |-> New(r, "profile", now.profile),
     file |-> IF name = now.name THEN now.file ELSE BuildConfigFilename(name, r.id)]

FileOf(id, row) == IF row.file = Nil THEN BuildConfigFilename(row.name, id) ELSE row.file

(* Variants: the old file stays; a file is written for a new name only.      *)
RemoveNothing(now, next) == <<>>

WriteNewName(id, now, next) ==
    (IF next.name # now.name THEN << WriteGateway(FileOf(id, next), next) >> ELSE <<>>)
    \o << RescanProfile(next.profile) >>

(* A gateway that changes its name loses its old file before the row has the *)
(* new name.                                                                 *)
RemoveOld(now, next) == IF next.name # now.name THEN << Unlink(now.file) >> ELSE <<>>

WriteNew(id, now, next) == << WriteGateway(FileOf(id, next), next), RescanProfile(next.profile) >>

UpdateGateway(w, r) ==
    /\ r.op = "updateGateway" /\ r.id \in DOMAIN db.gateway
    /\ LET now == db.gateway[r.id]
           next == Updated(r, now)
       IN /\ \A g \in DOMAIN db.gateway : db.gateway[g].name = next.name => g = r.id
          /\ Begin(w, r, RemoveOld(now, next) \o << Tx(<< Save("gateway", r.id, next) >>) >>
                          \o WriteNew(r.id, now, next))

DeleteGateway(w, r) ==
    /\ r.op = "deleteGateway" /\ r.id \in DOMAIN db.gateway
    /\ LET now == db.gateway[r.id] IN
       Begin(w, r, << Tx(<< Delete("gateway", {r.id}) >>), KillGateway(now.profile, now.name),
                      Unlink(now.file), RescanProfile(now.profile) >>)

-----------------------------------------------------------------------------
(* Settings.                                                                *)

PortsOf(d) == IF "ports" \in DOMAIN d.setting THEN d.setting.ports ELSE DefaultPorts

(* A port that is not given is the one the handler read.                     *)
NormalizePortConfig(r) == Over(r.dto, PortsOf(db))

UpdateFsPortConfig(w, r) ==
    LET ports == NormalizePortConfig(r) IN
    /\ r.op = "updatePorts"
    /\ ports.rtpStart < ports.rtpEnd
    /\ Begin(w, r, << Tx(<< Save("setting", "ports", ports) >>), WritePorts(ports) >>
                   \o [i \in 1..3 |-> LET v == <<"internal", "rtpStart", "rtpEnd">>[i] IN SetVar(v, ports[v])]
                   \o << RestartProfile >>)

UpdateRecordingStorageConfig(w, r) ==
    /\ r.op = "updateStorage"
    /\ r.dto.mode = "cdn" => r.dto.base # Nil
    /\ Begin(w, r, << Tx(<< Save("setting", "storage", r.dto) >>) >>)

-----------------------------------------------------------------------------
(* The files.                                                               *)

Step(w, kind) == Busy(w) /\ Head(work[w].todo).kind = kind

Rest(w) == Tail(work[w].todo)

(* writeGatewayConfig: a file that cannot be written ends the request.       *)
WriteGatewayConfig(w) ==
    /\ Step(w, "file")
    /\ \/ LET todo == Head(work[w].todo) IN
          /\ disk' = [disk EXCEPT !.gateways = Over([f \in {todo.file} |-> todo.row.name], @)]
          /\ Advance(w, Rest(w), disk' # disk)
          /\ UNCHANGED <<db, pbx, requests, lost>>
       \/ Abandon(w)

(* deleteConfigFile: a file that cannot be removed stays, the request goes   *)
(* on.                                                                       *)
DeleteConfigFile(w) ==
    /\ Step(w, "unlink")
    /\ LET file == Head(work[w].todo).file IN
       \/ /\ disk' = [disk EXCEPT !.gateways = [f \in DOMAIN @ \ {file} |-> @[f]]]
          /\ UNCHANGED pbx
       \/ /\ pbx' = [pbx EXCEPT !.failed = TRUE]
          /\ UNCHANGED disk
    /\ Advance(w, Rest(w), disk' # disk)
    /\ UNCHANGED <<db, requests, lost>>

WritePortOverrideFile(w) ==
    /\ Step(w, "portsFile")
    /\ \/ /\ disk' = [disk EXCEPT !.ports = Head(work[w].todo).ports]
          /\ UNCHANGED pbx
       \/ /\ pbx' = [pbx EXCEPT !.failed = TRUE]
          /\ UNCHANGED disk
    /\ Advance(w, Rest(w), disk' # disk)
    /\ UNCHANGED <<db, requests, lost>>

-----------------------------------------------------------------------------
(* The commands.  A rescan adds the gateways of the files that the profile   *)
(* includes and keeps the others; a gateway to kill is found by its name,    *)
(* whatever the profile; a restart reads the variables.                      *)
Includes(profile) == IF profile = "external" THEN DOMAIN disk.gateways ELSE {}

Obeyed(p, c) ==
    CASE c.name = "rescan"  -> [p EXCEPT !.gateways = @ \cup { disk.gateways[f] : f \in Includes(c.value) }]
      [] c.name = "killgw"  -> [p EXCEPT !.gateways = @ \ {c.arg}]
      [] c.name = "restart" -> [p EXCEPT !.internal = p.vars.internal]
      [] OTHER              -> [p EXCEPT !.vars[c.arg] = c.value]

(* runCommand: answered, refused, or given up after five seconds with the    *)
(* connection left open, so that it may still be obeyed.  No failure ends    *)
(* the request.                                                              *)
RunCommand(w) ==
    /\ Step(w, "command")
    /\ LET c == Head(work[w].todo) IN
       \/ pbx' = Obeyed(pbx, c)
       \/ pbx' = [pbx EXCEPT !.failed = TRUE]
       \/ /\ Cardinality(pbx.late) < MaxLate
          /\ pbx' = [pbx EXCEPT !.failed = TRUE, !.late = @ \cup {c}]
    /\ Advance(w, Rest(w), [pbx' EXCEPT !.failed = FALSE, !.late = {}]
                           # [pbx EXCEPT !.failed = FALSE, !.late = {}])
    /\ UNCHANGED <<db, disk, requests, lost>>

LateCommand ==
    /\ \E c \in pbx.late : pbx' = Obeyed([pbx EXCEPT !.late = @ \ {c}], c)
    /\ UNCHANGED <<db, disk, requests, work, clean, lost>>

NetworkRequest(w, r) ==
    \/ CreateGateway(w, r) \/ UpdateGateway(w, r) \/ DeleteGateway(w, r)
    \/ UpdateFsPortConfig(w, r) \/ UpdateRecordingStorageConfig(w, r)

NetworkStep(w) ==
    \/ WriteGatewayConfig(w) \/ DeleteConfigFile(w) \/ WritePortOverrideFile(w) \/ RunCommand(w)
=============================================================================
