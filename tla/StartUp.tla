------------------------------- MODULE StartUp -------------------------------
(***************************************************************************)
(* How a controller starts (ironstack.cpp, hal::init()): it looks its      *)
(* switch up in a table (services/switch_db, common/csv_parser), logs in   *)
(* to the switch's command line and reads the VLANs of its instance there  *)
(* (switch_commander, common/switch_telnet), then listens, accepts the     *)
(* switch's OpenFlow connection (common/tcp) and shakes hands.             *)
(*                                                                         *)
(* A stream is a sequence of units, taken in any portions: a character, a  *)
(* word or a group of ports of the command line, an octet of a message.    *)
(* One thread runs here; the command line and the OpenFlow side of the     *)
(* switch, and strangers that connect, are the environment.                *)
(***************************************************************************)
EXTENDS Integers, Sequences, FiniteSets, SequencesExt, FiniteSetsExt

CONSTANTS Setups,     \* a table, a switch's settings, and what may go wrong
          HeaderSize, \* sizeof(struct ofp_header), scaled down
          ChunkSize   \* the octets of one send(), scaled down from 1024

ASSUME StartUpAssumption == {HeaderSize, ChunkSize} \subseteq Nat \ {0}

VARIABLES setup,     \* the setup, with what may still go wrong
          at,        \* where the main thread is
          step,      \* the line of Script the commander is at
          got,       \* what the current read has so far
          verb,      \* the telnet command whose option is next
          logged_in, \* of the switch_telnet
          connected, \* the sockets that are: "telnet", "openflow", "listening"
          found,     \* vlan_settings
          device,    \* external: [out, mode, closed], the switch's command line
          unsent,    \* what send_raw() has still to send
          switch,    \* external: [out, said, heard, closed], the switch's OpenFlow side
          taken,     \* messages read
          asynchronous_messages,
          paused     \* history: a pause of the command line has cut the list of VLANs

starting_vars == <<setup, at, step, got, verb, logged_in, connected, found, device, unsent, switch, taken,
                  asynchronous_messages, paused>>
telnet_vars  == <<step, got, verb, logged_in, found, device, paused>>
hal_vars     == <<unsent, switch, taken, asynchronous_messages>>

U(text) == [u |-> text]
Positions(s, text) == {i \in DOMAIN s : s[i].u = text}
Finds(s, text) == Positions(s, text) # {}
Position(s, text) == Min(Positions(s, text))

----------------------------------------------------------------------------
(* The table of switches *)

\* csv_parser::load(): lines up to one with another number of columns; nothing if quotes are unmatched.
Broken(file) == {i \in DOMAIN file : file[i].cols # file[1].cols}
ReadLines(file) == IF Broken(file) = {} THEN file ELSE SubSeq(file, 1, Min(Broken(file)) - 1)
Parses(file) == \A i \in DOMAIN ReadLines(file) : file[i].quotes # "unmatched"

\* switch_db::load(): two lines, the headings, a line, then the switches; a line without a room is skipped.
Switches(file) == SelectSeq(SubSeq(ReadLines(file), 5, Len(ReadLines(file))), LAMBDA line : ~line.empty)
Loads(file) == Parses(file) /\ file[1].cols = 12 /\ Len(ReadLines(file)) > 4

\* lookup_switch_info_by_management_ip(): the first switch that has the address as any of its own.
Named(file, ip) == {i \in DOMAIN Switches(file) :
                       ip = Switches(file)[i].management \/ ip \in Range(Switches(file)[i].control)}
SwitchInfo(file, ip) == Switches(file)[Min(Named(file, ip))]

\* The switch state aborts on an address that is nil and on a name, with its prefix, of 40 characters or more.
set_switch_ip(info) == info.data_plane # "nil"
set_name(info) == Len("ironstack_") + info.length < 40

\* setup_aux_info(): the thread goes on to the command line, or the program ends.
SetUpAuxInfo ==
    /\ at = "schema"
    /\ at' = IF /\ Loads(setup.file) /\ Named(setup.file, setup.ip) # {}
               /\ set_switch_ip(SwitchInfo(setup.file, setup.ip)) /\ set_name(SwitchInfo(setup.file, setup.ip))
            THEN "connect" ELSE "exited"
    /\ UNCHANGED <<setup, connected, telnet_vars, hal_vars>>

\* The one address that may connect: the control plane of this instance; there is none for the fourth.
Allowed == {SwitchInfo(setup.file, setup.ip).control[setup.instance]}

----------------------------------------------------------------------------
(* The switch's command line (external) *)

Prompt == <<U("name"), U("#")>>
\* "show openflow of-instance": the VLANs of the instance, each `Vl' and a number.
InstanceListing(s) ==
    <<U("Instance"), U("Vlan List")>>
    \o FlattenSeq([i \in DOMAIN s.members |-> <<U("Vl"), [u |-> "number", n |-> s.members[i]]>>])
    \o <<U("Vlan Mbr list"), U("text")>>
\* "show vlan": a line for each VLAN, and one for its other kind of ports.
Column(kind, groups) ==
    [i \in DOMAIN groups |-> [u |-> IF i = 1 THEN kind ELSE "more", lo |-> groups[i][1], hi |-> groups[i][2]]]
    \o (IF groups = <<>> THEN <<>> ELSE <<U("eol")>>)
VlanLines(v) ==
    <<[u |-> "vlan", n |-> v.vlan, active |-> v.active]>>
    \o (IF v.active THEN Column("T", v.tagged) \o Column("U", v.untagged) ELSE <<U("eol")>>)
VlanListing(s) == <<U("text"), U("Q Ports")>> \o FlattenSeq([i \in DOMAIN s.vlans |-> VlanLines(s.vlans[i])])

\* What the command line says to a line, after its echo.
Answer(d, line) ==
    CASE d.mode = "login"    -> <<U("text"), U(":")>>
      [] d.mode = "password" -> IF setup.authorised THEN <<U("text")>> \o Prompt ELSE <<U("Authentication failed")>>
      [] line = "show openflow of-instance" -> <<U("echo")>> \o InstanceListing(setup) \o Prompt
      [] line = "show vlan"  -> <<U("echo")>> \o VlanListing(setup) \o Prompt
      [] OTHER               -> <<U("echo")>> \o Prompt
NextMode(mode) == CASE mode = "login" -> "password" [] OTHER -> "shell"

DeviceCloses ==
    /\ setup.closes > 0 /\ "telnet" \in connected /\ ~device.closed
    /\ setup' = [setup EXCEPT !.closes = @ - 1]
    /\ device' = [device EXCEPT !.closed = TRUE]
    /\ UNCHANGED <<at, step, got, verb, logged_in, connected, found, hal_vars, paused>>

----------------------------------------------------------------------------
(* Sockets and telnet *)

\* The program ends, and its sockets with it.
Exit == at' = "exited" /\ connected' = {}

\* recv() of one unit of what the command line says, or the end of the connection.
Next1(u) == device.out # <<>> /\ u = Head(device.out)
Took == [device EXCEPT !.out = Tail(@)]
Said == Range(device.out)
EndOfDevice == device.out = <<>> /\ device.closed

\* send_raw() of a line when the device is d: heard, or lost, as the connection is closing.
Sent(d, line) == IF d.closed THEN d ELSE [d EXCEPT !.out = @ \o Answer(d, line), !.mode = NextMode(@)]
MayFail == device.closed

\* tcp::connect(): refused, or connected to a command line that negotiates and greets.
ConnectTelnet ==
    /\ at = "connect"
    /\ \/ Exit /\ UNCHANGED device
       \/ /\ at' = "negotiate" /\ connected' = connected \cup {"telnet"}
          /\ device' = [device EXCEPT !.out = setup.negotiation \o <<U("text"), U("text"), U(":")>>]
    /\ UNCHANGED <<setup, step, got, verb, logged_in, found, paused, hal_vars>>

\* switch_telnet::connect(): telnet commands come first, each with its option; what is asked for with DO is
\* refused.  The first other octet ends the negotiation.
Negotiate ==
    /\ at = "negotiate"
    /\ \E u \in Said :
          /\ Next1(u) /\ device' = Took
          /\ verb' = CASE verb = "none" -> u.u [] verb = "IAC" -> u.u [] OTHER -> "none"
          /\ IF verb = "none" /\ u.u # "IAC" THEN at' = "login" /\ UNCHANGED connected
             ELSE (verb = "DO" /\ MayFail /\ Exit) \/ UNCHANGED <<at, connected>>
    /\ UNCHANGED <<setup, step, got, logged_in, found, paused, hal_vars>>

\* Up to a colon, then the user's name; up to a colon, then the password.
LogIn ==
    /\ at \in {"login", "password"}
    /\ \E u \in Said :
          /\ Next1(u)
          /\ IF u.u # ":" THEN device' = Took /\ UNCHANGED <<at, connected>>
             ELSE /\ device' = Sent(Took, "answer")
                  /\ \/ at' = (IF at = "login" THEN "password" ELSE "authentication") /\ UNCHANGED connected
                     \/ MayFail /\ Exit
    /\ UNCHANGED <<setup, step, got, verb, logged_in, found, paused, hal_vars>>

\* The answer to the password: a prompt, a refusal, or nothing for five seconds.
Authenticate ==
    /\ at = "authentication"
    /\ \/ /\ \E u \in Said :
                /\ Next1(u)
                /\ \/ u.u \in {"#", ">"} /\ logged_in' = TRUE /\ at' = "commander" /\ UNCHANGED connected
                   \/ u.u = "Authentication failed" /\ Exit /\ UNCHANGED logged_in
                   \/ u.u \notin {"#", ">", "Authentication failed"} /\ UNCHANGED <<logged_in, at, connected>>
          /\ device' = Took /\ UNCHANGED setup
       \/ /\ setup.pauses > 0 /\ setup' = [setup EXCEPT !.pauses = @ - 1]
          /\ Exit /\ UNCHANGED <<logged_in, device>>
    /\ UNCHANGED <<step, got, verb, found, paused, hal_vars>>

\* A read meets the end of the connection before the login has succeeded.
LoginBroken ==
    /\ at \in {"negotiate", "login", "password", "authentication"} /\ EndOfDevice
    /\ Exit
    /\ UNCHANGED <<setup, telnet_vars, hal_vars>>

----------------------------------------------------------------------------
(* The commander *)

\* What init() and get_vlan_settings() do: lines written, waits for a prompt, replies read.
Write(line) == [does |-> "write", line |-> line]
Does(what)  == [does |-> what]
Script == << Write("terminal length 0"), Write(""), Does("wait"),
             Write(""), Does("wait"), Write("show openflow of-instance"), Does("instance"),
             Write(""), Does("wait"), Write("show vlan"), Does("vlans") >>
Reading == at = "commander" /\ Script[step].does # "write"

\* issue_command(): a write that fails returns -1, which is not false: the commander goes on.
IssueCommand ==
    /\ at = "commander" /\ Script[step].does = "write"
    /\ step' = step + 1 /\ got' = <<>>
    /\ \/ device' = (IF logged_in THEN Sent(device, Script[step].line) ELSE device) /\ UNCHANGED <<logged_in, connected>>
       \/ logged_in /\ MayFail /\ logged_in' = FALSE /\ connected' = connected \ {"telnet"} /\ UNCHANGED device
    /\ UNCHANGED <<setup, at, verb, found, paused, hal_vars>>

\* read_until_timeout(), an octet at a time; of a wait only the last octet is kept.
ReadUnit ==
    /\ Reading /\ logged_in
    /\ \E u \in Said : Next1(u) /\ got' = IF Script[step].does = "wait" THEN <<u>> ELSE Append(got, u)
    /\ device' = Took
    /\ UNCHANGED <<setup, at, step, verb, logged_in, connected, found, paused, hal_vars>>

Disconnected ==
    /\ Reading /\ logged_in /\ EndOfDevice
    /\ Exit
    /\ UNCHANGED <<setup, telnet_vars, hal_vars>>

\* The VLANs of the instance, between the two headings.
OfInstance(text) ==
    LET from == Position(text, "Vlan List")
        list == SubSeq(text, from + 1, Position(text, "Vlan Mbr list") - 1)
    IN  [i \in 1..Cardinality(Positions(list, "number")) |-> SelectSeq(list, LAMBDA t : t.u = "number")[i].n]
InstanceFound(text) == \A heading \in {"Instance", "Vlan List", "Vlan Mbr list"} : Finds(text, heading)

\* Fault: a range of ports ends before its last one.
FaultPortSet(t) == (t.lo + 1)..(IF t.hi > t.lo THEN t.hi ELSE t.hi + 1)

\* string_to_number_set(): ports are counted from 0 there and from 1 in OpenFlow.
PortSet(t) == (t.lo + 1)..(t.hi + 1)

\* get_all_vlans(), a unit of the listing at a time: `line' is what the line has had so far.
NoVlans == [vlans |-> <<>>, active |-> FALSE, line |-> "none", ok |-> TRUE]
Put(p, kind, ports) == [p EXCEPT !.vlans[Len(p.vlans)][kind] = ports, !.line = kind]
ReadVlan(p, t) ==
    CASE t.u = "vlan" -> [p EXCEPT !.vlans = Append(@, [vlan |-> t.n, active |-> t.active, tagged |-> {}, untagged |-> {}]),
                                   !.active = t.active, !.line = "vlan"]
      [] t.u = "T" /\ p.active -> Put(p, "tagged", PortSet(t))
      [] t.u = "U" /\ p.active -> Put(p, "untagged", PortSet(t))
      [] t.u = "more" /\ p.active -> Put(p, p.line, Last(p.vlans)[p.line] \cup PortSet(t))
      [] t.u = "eol" -> [p EXCEPT !.line = "none", !.ok = @ /\ (p.active => p.line # "vlan")]
      [] OTHER -> p
AllVlans(text) == FoldLeft(ReadVlan, NoVlans, SubSeq(text, Position(text, "Q Ports") + 1, Len(text)))
\* A list that ends in a line without ports is refused as such a line is.
Listed(text) == Finds(text, "Q Ports") /\ AllVlans(text).ok /\ (AllVlans(text).active => AllVlans(text).line # "vlan")

\* The settings of the instance's VLANs; of a VLAN not in the list nothing is set, not even `active'.
Settings(members, vlans, uninitialised) ==
    [i \in DOMAIN members |->
        LET same == {j \in DOMAIN vlans : vlans[j].vlan = members[i]}
        IN  IF same = {} THEN [vlan |-> members[i], active |-> uninitialised, tagged |-> {}, untagged |-> {}]
            ELSE vlans[Min(same)]]

\* A read ends when nothing comes for 200 ms: there is no more, or the command line pauses, or the login
\* was lost.  (The set of descriptors waited on is not cleared first, so that a wait may also be longer.)
Ends ==
    /\ Reading
    /\ \/ ~logged_in /\ UNCHANGED setup
       \/ logged_in /\ device.out = <<>> /\ ~device.closed /\ UNCHANGED setup
       \/ logged_in /\ device.out # <<>> /\ setup.pauses > 0 /\ setup' = [setup EXCEPT !.pauses = @ - 1]

\* wait_for_prompt(): when nothing came the octet it looks at was never written.
PromptSeen ==
    /\ Script[step].does = "wait"
    /\ \E last \in IF got = <<>> THEN {U("#"), U("text")} ELSE Range(got) :
          IF last.u \in {"#", ">"} THEN step' = step + 1 /\ UNCHANGED <<at, connected>>
          ELSE Exit /\ UNCHANGED step
    /\ UNCHANGED <<found, paused>>

InstanceRead ==
    /\ Script[step].does = "instance"
    /\ IF InstanceFound(got)
       THEN /\ found' = Settings(OfInstance(got), <<>>, FALSE)
            /\ step' = step + 1 /\ UNCHANGED <<at, connected>>
       ELSE Exit /\ UNCHANGED <<step, found>>
    /\ UNCHANGED paused

VlansRead ==
    /\ Script[step].does = "vlans"
    /\ IF Listed(got)
       THEN /\ \E uninitialised \in BOOLEAN :
                  found' = Settings([i \in DOMAIN found |-> found[i].vlan], AllVlans(got).vlans, uninitialised)
            /\ at' = "listen" /\ paused' = (\E u \in Said : u.u \in {"vlan", "T", "U", "more"}) /\ UNCHANGED connected
       ELSE Exit /\ UNCHANGED <<found, paused>>
    /\ UNCHANGED step

EndRead == Ends /\ (PromptSeen \/ InstanceRead \/ VlansRead) /\ got' = <<>> /\ UNCHANGED <<verb, logged_in, device, hal_vars>>

----------------------------------------------------------------------------
(* hal::init() *)

Message(type, size) == [type |-> type, size |-> size]
\* The octets of a message; its header says how many.
Frame(m) == [i \in 1..m.size |-> [of |-> m, i |-> i]]
Hello       == Message("OFPT_HELLO", HeaderSize)
SetConfig   == Message("OFPT_SET_CONFIG", HeaderSize + 1)
EchoRequest == Message("OFPT_ECHO_REQUEST", HeaderSize)
EchoAnswer   == Message("OFPT_ECHO_REPLY", HeaderSize)

\* tcp::listen(): fails when another process has the port.  There is no fourth control plane.
Listen ==
    /\ at = "listen"
    /\ IF setup.instance > 3 THEN Exit
       ELSE \/ Exit
            \/ at' = "accept" /\ connected' = connected \cup {"listening"}
    /\ UNCHANGED <<setup, telnet_vars, hal_vars>>

\* tcp::accept(), of the next that connects; it fails when that one is gone again.
accept == at = "accept" /\ "listening" \in connected /\ setup.clients # <<>>
stop_listen(sockets) == sockets \ {"listening"}
\* Whoever is not allowed, or is gone, is closed; the switch ends the listening.
Accept ==
    /\ accept
    /\ setup' = [setup EXCEPT !.clients = Tail(@)]
    /\ \/ UNCHANGED <<at, connected, unsent>>
       \/ /\ Head(setup.clients) \in Allowed
          /\ connected' = stop_listen(connected) \cup {"openflow"}
          /\ at' = "send hello" /\ unsent' = Frame(Hello)
    /\ UNCHANGED <<telnet_vars, switch, taken, asynchronous_messages>>

\* send_raw(): in pieces, of which the socket may take a part.
After == [s \in {"send hello", "send config", "send echo"} |->
             CASE s = "send hello"  -> [at |-> "hello", unsent |-> <<>>]
               [] s = "send config" -> [at |-> "send echo", unsent |-> Frame(EchoRequest)]
               [] s = "send echo"   -> [at |-> "echo", unsent |-> <<>>]]
SendSome ==
    /\ at \in DOMAIN After
    /\ \E n \in 1..Min({ChunkSize, Len(unsent)}) :
          LET rest == SubSeq(unsent, n + 1, Len(unsent)) IN
          /\ switch' = [switch EXCEPT !.heard = IF switch.closed THEN @ ELSE @ \o SubSeq(unsent, 1, n)]
          /\ IF rest = <<>> THEN at' = After[at].at /\ unsent' = After[at].unsent
             ELSE unsent' = rest /\ UNCHANGED at
    /\ UNCHANGED <<setup, connected, telnet_vars, taken, asynchronous_messages>>

Listens == at \in {"hello", "echo", "ready"}

\* Fault: the length is taken for the body's.
FaultNeeded(octets) == IF Len(octets) < HeaderSize THEN HeaderSize ELSE HeaderSize + octets[1].of.size

\* get_next_openflow_message(): the header, then as many octets as it says, whatever portions they come in.
Needed(octets) == IF Len(octets) < HeaderSize THEN HeaderSize ELSE octets[1].of.size
\* A message that is waited for goes no further; every other one is kept for the process loop.
Awaited(octets) == \/ at = "hello" /\ octets[1].of.type = "OFPT_HELLO"
                   \/ at = "echo" /\ octets[1].of.type = "OFPT_ECHO_REPLY"
Handle(octets) ==
    /\ taken' = Append(taken, octets)
    /\ asynchronous_messages' =
          IF Awaited(octets) \/ at = "ready" THEN asynchronous_messages ELSE Append(asynchronous_messages, octets)
    /\ at' = CASE Awaited(octets) /\ at = "hello" -> "send config" [] Awaited(octets) -> "ready" [] OTHER -> at
    /\ unsent' = IF Awaited(octets) /\ at = "hello" THEN Frame(SetConfig) ELSE unsent
ReceiveSome ==
    /\ Listens
    /\ \E n \in 1..Min({Len(switch.out), Needed(got) - Len(got)}) :
          LET octets == got \o SubSeq(switch.out, 1, n) IN
          /\ switch' = [switch EXCEPT !.out = SubSeq(@, n + 1, Len(@))]
          /\ IF Len(octets) >= HeaderSize /\ Len(octets) = Needed(octets)
             THEN Handle(octets) /\ got' = <<>>
             ELSE got' = octets /\ UNCHANGED <<at, unsent, taken, asynchronous_messages>>
    /\ UNCHANGED <<setup, step, verb, logged_in, connected, found, device, paused>>

\* A send or a read that fails closes the connection; during the handshake the program ends, later the
\* receive loop does.
ConnectionBroken ==
    /\ switch.closed
    /\ \/ at \in DOMAIN After
       \/ Listens /\ switch.out = <<>>
    /\ IF at = "ready" THEN at' = "stopped" /\ connected' = connected \ {"openflow"} ELSE Exit
    /\ UNCHANGED <<setup, telnet_vars, hal_vars>>

\* The switch (external): what it has to say, an answer to the echo request, the end of the connection.
Say(m) == switch' = [switch EXCEPT !.said = Append(@, m), !.out = @ \o Frame(m)]
Open == "openflow" \in connected /\ ~switch.closed
SwitchSays ==
    /\ Open /\ setup.says # <<>> /\ Say(Head(setup.says))
    /\ setup' = [setup EXCEPT !.says = Tail(@)]
    /\ UNCHANGED <<at, connected, telnet_vars, unsent, taken, asynchronous_messages>>
SwitchEchoes ==
    /\ Open /\ Last(Frame(EchoRequest)) \in Range(switch.heard) /\ EchoAnswer \notin Range(switch.said) /\ Say(EchoAnswer)
    /\ UNCHANGED <<setup, at, connected, telnet_vars, unsent, taken, asynchronous_messages>>
SwitchCloses ==
    /\ Open /\ setup.closes > 0 /\ switch' = [switch EXCEPT !.closed = TRUE]
    /\ setup' = [setup EXCEPT !.closes = @ - 1]
    /\ UNCHANGED <<at, connected, telnet_vars, unsent, taken, asynchronous_messages>>

----------------------------------------------------------------------------
StartUpInit ==
    /\ setup \in Setups
    /\ at = "schema" /\ step = 1 /\ got = <<>> /\ verb = "none" /\ logged_in = FALSE /\ connected = {}
    /\ found = <<>> /\ paused = FALSE
    /\ device = [out |-> <<>>, mode |-> "login", closed |-> FALSE]
    /\ switch = [out |-> <<>>, said |-> <<>>, heard |-> <<>>, closed |-> FALSE]
    /\ unsent = <<>> /\ taken = <<>> /\ asynchronous_messages = <<>>

StartUpNext ==
    \/ SetUpAuxInfo \/ ConnectTelnet \/ Negotiate \/ LogIn \/ Authenticate \/ LoginBroken
    \/ IssueCommand \/ ReadUnit \/ Disconnected \/ EndRead
    \/ Listen \/ Accept \/ SendSome \/ ReceiveSome \/ ConnectionBroken
    \/ DeviceCloses \/ SwitchSays \/ SwitchEchoes \/ SwitchCloses

StartUpSpec == StartUpInit /\ [][StartUpNext]_starting_vars

----------------------------------------------------------------------------
\* The VLANs the controller starts with are those of its instance, as the switch has them, whatever was late,
\* lost or left over on the command line: unless the list itself was cut short by a pause, which
\* get_all_vlans() takes for its end.
Ports(groups) == UNION {(g[1] + 1)..(g[2] + 1) : g \in Range(groups)}
AsConfigured(s) ==
    [i \in DOMAIN s.members |->
        LET v == CHOOSE v \in Range(s.vlans) : v.vlan = s.members[i]
        IN  [vlan |-> v.vlan, active |-> v.active, tagged |-> IF v.active THEN Ports(v.tagged) ELSE {},
             untagged |-> IF v.active THEN Ports(v.untagged) ELSE {}]]
VlansAsConfigured ==
    connected \cap {"listening", "openflow"} # {} /\ ~paused => found = AsConfigured(setup)

\* Messages are read whole and in order, in whatever pieces they come, from the first of the handshake to the
\* last of the receive loop; what came too early for the handshake is kept in order; and the switch hears
\* the handshake and nothing else.
FramesIntact ==
    /\ \A i \in DOMAIN taken : i \in DOMAIN switch.said /\ taken[i] = Frame(switch.said[i])
    /\ Listens => FlattenSeq(taken) \o got \o switch.out = FlattenSeq([i \in DOMAIN switch.said |-> Frame(switch.said[i])])
    /\ IsPrefix(asynchronous_messages,
                SelectSeq(taken, LAMBDA m : m[1].of.type \notin {"OFPT_HELLO", "OFPT_ECHO_REPLY"}))
    /\ IsPrefix(switch.heard, Frame(Hello) \o Frame(SetConfig) \o Frame(EchoRequest))
=============================================================================
