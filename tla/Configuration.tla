---------------------------- MODULE Configuration ----------------------------
(* Configuration files: what trx-configurator writes and checks, and what   *)
(* trx-server and trx-client make of a file when they start.                *)
(*                                                                          *)
(* A file is a layout, the state of its syntax and its sections; a section  *)
(* is a record of settings, and a setting keeps of its value only what the  *)
(* checks tell apart. "neg" and "odd" stand for values of the wrong type,   *)
(* which do not parse. Settings that are always checked together are one:   *)
(* "ranges", "texts", and of the access of a rig "serial" for port and baud *)
(* and "tcp" for host and port, "bad" when one is missing, blank or zero.   *)
(* The overrides of the command line are left out.                          *)
EXTENDS Integers, Sequences, FiniteSets

CONSTANTS Answered,   \* the answers to the wizard: [server, client]
          Fleets,     \* the lists of [[rigs]] a user may write
          Remotes,    \* the lists of [[remotes]]
          Absent,     \* no file, no section, no outcome
          MaxEdits,   \* bound: edits by hand
          MaxWrites   \* bound: files written, printed and copied

\* The names trx-configurator gives its files; the default search looks at Searched.
Paths == {"trx-server.toml", "trx-client.toml", "trx-rs.toml", "/etc"}
Searched == <<"trx-rs.toml", "/etc">>
Binaries == {"server", "client"}

\* The remotes of the example file.
ExampleRemotes == << [name |-> "hf", url |-> "ok", fine |-> TRUE],
                     [name |-> "vhf", url |-> "ok", fine |-> TRUE] >>

ASSUME ConfigAssumption ==
    /\ {MaxEdits, MaxWrites} \subseteq Nat
    /\ <<>> \in Fleets /\ {<<>>, ExampleRemotes} \subseteq Remotes
    /\ Absent \notin Paths

VARIABLES
    disk,       \* the files: [by, layout, sound, server, client]
    verdict,    \* what --check said last: [path, errors]
    started,    \* the last start: [program, path, outcome, rigs]
    edits, writes   \* bounded counters

configVars == <<disk, verdict, started, edits, writes>>

-----------------------------------------------------------------------------
(* Settings.                                                                *)

ServerValues ==
    [level |-> {"info", "loud"}, lat |-> {"none", "ok", "far"}, lon |-> {"none", "ok", "far"},
     model |-> {"none", "ft817", "soapysdr", "odd"},
     access |-> {"none", "serial", "tcp", "sdr", "usb"},
     serial |-> {"none", "ok", "bad"}, tcp |-> {"none", "ok", "bad"}, args |-> {"none", "ok"},
     ranges |-> {"ok", "zero"}, tokens |-> {"ok", "blank"},
     listen |-> BOOLEAN, listenAt |-> {"ok", "odd"}, listenPort |-> {"ok", "zero", "neg"},
     audio |-> BOOLEAN, rx |-> BOOLEAN, tx |-> BOOLEAN, audioPort |-> {"ok", "zero", "neg"},
     audioForm |-> {"ok", "zero"}, psk |-> {"off", "ok", "blank"}, locator |-> BOOLEAN,
     aprsfi |-> {"off", "ok", "blank"}, logs |-> {"off", "ok", "blank"},
     sdr |-> {"ok", "zero"}, rigs |-> Fleets]

ClientValues ==
    [level |-> {"info", "loud"}, url |-> {"none", "ok", "blank", "odd"},
     token |-> {"none", "ok", "blank"}, remotes |-> Remotes,
     ranges |-> {"ok", "zero"}, texts |-> {"ok", "blank"},
     http |-> BOOLEAN, httpPort |-> {"ok", "zero", "neg"},
     rigctl |-> BOOLEAN, rigctlPort |-> {"ok", "zero", "neg"},
     rigPorts |-> {"none", "ok", "zero"},
     audio |-> BOOLEAN, audioPort |-> {"ok", "zero"}, audioUrl |-> {"none", "ok", "odd"},
     auth |-> BOOLEAN, rx |-> {"none", "ok", "blank"}, control |-> {"none", "ok", "blank"},
     ttl |-> {"ok", "zero"}]

\* The defaults of the programs.
ServerDefault ==
    [level |-> "info", lat |-> "none", lon |-> "none", model |-> "none",
     access |-> "none", serial |-> "none", tcp |-> "none", args |-> "none",
     ranges |-> "ok", tokens |-> "ok",
     listen |-> TRUE, listenAt |-> "ok", listenPort |-> "ok",
     audio |-> TRUE, rx |-> TRUE, tx |-> TRUE, audioPort |-> "ok", audioForm |-> "ok",
     psk |-> "off", locator |-> FALSE, aprsfi |-> "off", logs |-> "off",
     sdr |-> "ok", rigs |-> <<>>]

ClientDefault ==
    [level |-> "info", url |-> "none", token |-> "none", remotes |-> <<>>,
     ranges |-> "ok", texts |-> "ok", http |-> TRUE, httpPort |-> "ok",
     rigctl |-> FALSE, rigctlPort |-> "ok", rigPorts |-> "none",
     audio |-> TRUE, audioPort |-> "ok", audioUrl |-> "none",
     auth |-> FALSE, rx |-> "none", control |-> "none", ttl |-> "ok"]

-----------------------------------------------------------------------------
(* The wizard.                                                              *)

\* The answers the prompts let through. Addresses are free text.
RigBy(model, access) ==
    [model |-> model, access |-> access,
     serial |-> IF access = "serial" THEN "ok" ELSE "none",
     tcp |-> IF access = "tcp" THEN "ok" ELSE "none",
     args |-> IF access = "sdr" THEN "ok" ELSE "none"]
RigAnswers == {RigBy("ft817", "serial"), RigBy("ft817", "tcp"), RigBy("soapysdr", "sdr")}
ServerAnswers == [rig : RigAnswers, located : BOOLEAN, listenAt : {"ok", "odd"}]
ClientAnswers == [url : {"ok", "odd"}, token : {"none", "ok"}, http : BOOLEAN, rigctl : BOOLEAN]
ASSUME AnswersAssumption == Answered \subseteq [server : ServerAnswers, client : ClientAnswers]

\* build_server_tables and build_client_tables: what they do not write has its default.
ServerTables(a) ==
    [ServerDefault EXCEPT !.lat = IF a.located THEN "ok" ELSE "none",
                          !.lon = IF a.located THEN "ok" ELSE "none",
                          !.model = a.rig.model, !.access = a.rig.access,
                          !.serial = a.rig.serial, !.tcp = a.rig.tcp, !.args = a.rig.args,
                          !.listenAt = a.listenAt]
ClientTables(a) ==
    [ClientDefault EXCEPT !.url = a.url, !.token = a.token,
                          !.http = a.http, !.rigctl = a.rigctl]

\* build_default.
DefaultServer ==
    [rig |-> RigBy("ft817", "serial"), located |-> FALSE, listenAt |-> "ok"]
DefaultClient == [url |-> "ok", token |-> "none", http |-> TRUE, rigctl |-> FALSE]

\* A standalone file has the tables of one program at its top, without the section.
Document(type, s, c) ==
    [by |-> "wizard", sound |-> TRUE,
     layout |-> IF type = "combined" THEN "sections" ELSE "flat",
     server |-> IF type = "client" THEN Absent ELSE ServerTables(s),
     client |-> IF type = "server" THEN Absent ELSE ClientTables(c)]

FileName(type) ==
    CASE type = "server" -> "trx-server.toml"
      [] type = "client" -> "trx-client.toml"
      [] OTHER -> "trx-rs.toml"

ConfigInit ==
    /\ disk = [p \in Paths |-> Absent]
    /\ verdict = Absent /\ started = Absent /\ edits = 0 /\ writes = 0

Stored(path, file) ==
    /\ writes < MaxWrites /\ writes' = writes + 1
    /\ disk' = [disk EXCEPT ![path] = file]
    /\ verdict' = Absent /\ started' = Absent
    /\ UNCHANGED edits

\* write_file: an existing file is only replaced after a question, so that the action is
\* also the user's consent. --defaults asks nothing else.
Configure(type) ==
    \/ \E a \in Answered : Stored(FileName(type), Document(type, a.server, a.client))
    \/ Stored(FileName(type), Document(type, DefaultServer, DefaultClient))

\* --print-config of the programs, into a file.
Example(program) ==
    IF program = "server" THEN ServerTables([DefaultServer EXCEPT !.located = TRUE])
    ELSE [ClientDefault EXCEPT !.rx = "ok", !.control = "ok",
                               !.remotes = ExampleRemotes]
PrintConfig(program) ==
    Stored(FileName(program),
        [by |-> "example", sound |-> TRUE, layout |-> "sections",
         server |-> IF program = "server" THEN Example("server") ELSE Absent,
         client |-> IF program = "client" THEN Example("client") ELSE Absent])

Install(path) == disk[path] # Absent /\ path # "/etc" /\ Stored("/etc", disk[path])

\* A setting, the syntax, the layout or a whole section is changed by hand.
EditByHand(path) ==
    /\ edits < MaxEdits /\ edits' = edits + 1
    /\ disk[path] # Absent
    /\ \E new \in
           {[disk[path] EXCEPT !.sound = FALSE], [disk[path] EXCEPT !.layout = "sections"]}
           \cup {[disk[path] EXCEPT ![p] = Absent] : p \in Binaries}
           \cup (IF disk[path].server = Absent THEN {}
                 ELSE UNION {{[disk[path] EXCEPT !.server[f] = v] : v \in ServerValues[f]} :
                             f \in DOMAIN ServerValues})
           \cup (IF disk[path].client = Absent THEN {}
                 ELSE UNION {{[disk[path] EXCEPT !.client[f] = v] : v \in ClientValues[f]} :
                             f \in DOMAIN ClientValues}) :
           /\ new # disk[path]
           /\ disk' = [disk EXCEPT ![path] = [new EXCEPT !.by = "hand"]]
    /\ verdict' = Absent /\ started' = Absent
    /\ UNCHANGED writes

-----------------------------------------------------------------------------
(* trx-configurator --check.                                                *)

\* validate_port: the range is always checked, zero only of what is enabled.
PortError(enabled, port) == port = "neg" \/ (enabled /\ port = "zero")

ServerErrors(s) ==
    \/ s.level = "loud" \/ s.lat = "far" \/ s.lon = "far"
    \/ (s.lat = "none") # (s.lon = "none")
    \/ s.access = "usb"
    \/ PortError(s.listen, s.listenPort) \/ PortError(s.audio, s.audioPort)

ClientErrors(c) ==
    \/ c.level = "loud"
    \/ PortError(c.http, c.httpPort) \/ PortError(c.rigctl, c.rigctlPort)

\* The sections that have an error; a file that is not TOML has them everywhere.
Errors(file) ==
    IF ~file.sound THEN Binaries
    ELSE {p \in Binaries : \/ p = "server" /\ file.server # Absent /\ ServerErrors(file.server)
                           \/ p = "client" /\ file.client # Absent /\ ClientErrors(file.client)}

CheckFile(path) ==
    /\ disk[path] # Absent
    /\ verdict' = [path |-> path, errors |-> Errors(disk[path])]
    /\ UNCHANGED <<disk, started, edits, writes>>

-----------------------------------------------------------------------------
(* The programs.                                                            *)

\* Deserialization: types only.
Parses(program, s) ==
    IF program = "server"
    THEN s.listenAt = "ok" /\ s.listenPort # "neg" /\ s.audioPort # "neg"
    ELSE s.httpPort # "neg" /\ s.rigctlPort # "neg"

\* ServerConfig::validate. A missing type of access is taken as serial, unless there
\* is nothing to check.
AccessAccepted(s) ==
    \/ s.access = "none" /\ s.serial = "none" /\ s.tcp = "none"
    \/ s.access \in {"none", "serial"} /\ s.serial = "ok"
    \/ s.access = "tcp" /\ s.tcp = "ok"
    \/ s.access = "sdr"

CoordinatesAccepted(s) == {s.lat, s.lon} \in {{"none"}, {"ok"}}

Enabled(rigs) == {i \in DOMAIN rigs : rigs[i].enable}

\* Mutant: an empty id and a disabled entry are no exceptions, but two ports may be the same.
FleetAccepted_SamePorts(rigs) ==
    rigs # <<>> =>
        /\ Enabled(rigs) # {}
        /\ \A i, j \in Enabled(rigs) : i # j => rigs[i].id = <<>> \/ rigs[i].id # rigs[j].id

FleetAccepted(rigs) ==
    rigs # <<>> =>
        /\ Enabled(rigs) # {}
        /\ \A i, j \in Enabled(rigs) :
            i # j => /\ rigs[i].id = <<>> \/ rigs[i].id # rigs[j].id
                     /\ rigs[i].audio = 0 \/ rigs[i].audio # rigs[j].audio

ServerAccepted(s) ==
    /\ s.level = "info" /\ CoordinatesAccepted(s) /\ s.ranges = "ok" /\ AccessAccepted(s)
    /\ s.tokens = "ok" /\ (s.listen => s.listenPort = "ok")
    /\ s.audio => s.audioPort = "ok" /\ (s.rx \/ s.tx) /\ s.audioForm = "ok"
    /\ s.psk # "blank" /\ (s.psk = "ok" => s.locator \/ (s.lat # "none" /\ s.lon # "none"))
    /\ s.aprsfi # "blank" /\ FleetAccepted(s.rigs) /\ s.logs # "blank"

\* validate_sdr, of the flat rig only.
SdrAccepted(s) ==
    s.access = "sdr" => s.args = "ok" /\ s.sdr = "ok" /\ ~s.tx

RemotesAccepted(list) ==
    /\ \A i \in DOMAIN list : list[i].fine /\ list[i].url # "blank"
    /\ \A i, j \in DOMAIN list : i # j => list[i].name # list[j].name

AuthAccepted(c) ==
    c.auth => /\ {c.rx, c.control} # {"none"} /\ "blank" \notin {c.rx, c.control}
              /\ c.ttl = "ok"

ClientAccepted(c) ==
    /\ c.level = "info" /\ RemotesAccepted(c.remotes) /\ c.url # "blank" /\ c.token # "blank"
    /\ c.ranges = "ok" /\ c.texts = "ok" /\ (c.http => c.httpPort = "ok")
    /\ c.rigctl => c.rigPorts # "none"
    /\ c.rigPorts # "zero" /\ c.audioUrl # "odd"
    /\ c.audio => c.audioUrl = "ok" \/ c.audioPort = "ok"
    /\ AuthAccepted(c)

\* resolved_rigs: an entry without an id is named after its model and its place.
IdOf(rigs, i) == IF rigs[i].id = <<>> THEN <<rigs[i].model, i - 1>> ELSE rigs[i].id
ResolvedRigs(s) ==
    IF s.rigs = <<>> THEN {[id |-> <<"default">>, audio |-> IF s.audio THEN 4531 ELSE 0, at |-> 1]}
    ELSE {[id |-> IdOf(s.rigs, i), audio |-> s.rigs[i].audio, at |-> i] : i \in Enabled(s.rigs)}

\* resolve_config, which takes a missing type as serial like the validation, but asks for
\* port and baud in any case; or the models of the entries, then the access of each in turn.
RigsResolve(s) ==
    IF s.rigs = <<>>
    THEN s.model \in {"ft817", "soapysdr"} /\ (s.access = "none" => s.serial = "ok")
    ELSE \A i \in Enabled(s.rigs) : s.rigs[i].model # "odd" /\ s.rigs[i].access # "usb"

\* resolved_remotes, and the URLs parsed before anything is spawned.
ResolvedRemotes(c) ==
    IF c.remotes # <<>> THEN c.remotes
    ELSE IF c.url # "none" THEN << [name |-> "default", url |-> c.url, fine |-> TRUE] >> ELSE <<>>
RemotesResolve(c) ==
    /\ ResolvedRemotes(c) # <<>>
    /\ \A i \in DOMAIN ResolvedRemotes(c) : ResolvedRemotes(c)[i].url # "odd"

\* load_section_from_file: a file that is not TOML is an error, whatever it has.
HasSection(program, file) == file.layout = "sections" /\ file[program] # Absent
Loads(program, file) ==
    file.sound /\ HasSection(program, file) /\ Parses(program, file[program])

\* ... then validated and resolved.
Accepted(program, s) ==
    IF program = "server" THEN ServerAccepted(s) /\ SdrAccepted(s) /\ RigsResolve(s)
    ELSE ClientAccepted(s) /\ RemotesResolve(s)

Starts(program, path, runs, s) ==
    /\ started' = [program |-> program, path |-> path, runs |-> runs,
                   rigs |-> IF runs /\ program = "server" THEN ResolvedRigs(s) ELSE {}]
    /\ UNCHANGED <<disk, verdict, edits, writes>>

\* With --config.
StartWith(program, path) ==
    /\ disk[path] # Absent
    /\ Starts(program, path,
              Loads(program, disk[path]) /\ Accepted(program, disk[path][program]),
              disk[path][program])

\* load_from_default_paths: the first file that has the section or cannot be read ends the
\* search.
Ending(program, path) ==
    disk[path] # Absent /\ (~disk[path].sound \/ HasSection(program, disk[path]))
Default(program) == IF program = "server" THEN ServerDefault ELSE ClientDefault
StartSearching(program) ==
    LET ending == {i \in DOMAIN Searched : Ending(program, Searched[i])} IN
    \/ /\ ending = {}
       /\ Starts(program, Absent, Accepted(program, Default(program)), Default(program))
    \/ \E i \in ending : (\A j \in ending : i <= j) /\ StartWith(program, Searched[i])

ConfigNext ==
    \/ \E type \in {"server", "client", "combined"} : Configure(type)
    \/ \E p \in Binaries : PrintConfig(p) \/ StartSearching(p)
    \/ \E path \in Paths : Install(path) \/ EditByHand(path) \/ CheckFile(path)
    \/ \E p \in Binaries, path \in Paths : StartWith(p, path)

ConfigSpec == ConfigInit /\ [][ConfigNext]_configVars
-----------------------------------------------------------------------------
ConfigTypeOK ==
    /\ \A path \in Paths :
        disk[path] = Absent \/
        /\ disk[path].by \in {"wizard", "example", "hand"} /\ disk[path].sound \in BOOLEAN
        /\ disk[path].layout \in {"flat", "sections"}
        /\ disk[path].server # Absent =>
            \A f \in DOMAIN ServerValues : disk[path].server[f] \in ServerValues[f]
        /\ disk[path].client # Absent =>
            \A f \in DOMAIN ClientValues : disk[path].client[f] \in ClientValues[f]
    /\ edits \in 0..MaxEdits /\ writes \in 0..MaxWrites

\* A file somebody's hand has not touched, for the program that has been started.
Untouched(kind) ==
    /\ started # Absent /\ started.path # Absent
    /\ disk[started.path].by = kind /\ disk[started.path][started.program] # Absent

\* What the wizard and --print-config write starts the program it is written for, as long as
\* it is a combined file, the station is a transceiver, the addresses are addresses and rigctl
\* is off.
PlainFilesRun ==
    LET section == disk[started.path][started.program] IN
    /\ Untouched("example") => started.runs
    /\ Untouched("wizard") /\ disk[started.path].layout = "sections" =>
        IF started.program = "server"
        THEN section.model = "ft817" /\ section.listenAt = "ok" => started.runs
        ELSE section.url = "ok" /\ ~section.rigctl => started.runs

\* What --check calls an error keeps the program from starting, but for the old port of
\* rigctl, which only the checker still looks at.
CheckedErrorsRefused ==
    started # Absent /\ verdict # Absent /\ verdict.path = started.path
      /\ started.program \in verdict.errors /\ started.runs =>
        started.program = "client" /\ disk[started.path].client.rigctlPort = "zero"

\* A server that runs has rigs, no two of them share an audio port, and two of them share
\* an id only if somebody has written an id of the automatic form. Nothing runs without a
\* file, since neither a rig nor a server to connect to has a default.
RunsAreSound ==
    started # Absent /\ started.runs =>
        /\ started.path # Absent
        /\ started.program = "server" => started.rigs # {}
        /\ \A r, q \in started.rigs :
            r # q => /\ r.audio = 0 \/ r.audio # q.audio
                     /\ r.id = q.id => Len(r.id) = 2

\* The files: types, what runs, what is refused, and what a check says about it.
ConfigInv == ConfigTypeOK /\ PlainFilesRun /\ CheckedErrorsRefused /\ RunsAreSound
=============================================================================
