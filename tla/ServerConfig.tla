---------------------------- MODULE ServerConfig ----------------------------
(***************************************************************************)
(* How pcapmerger comes to its list of servers: read_filter_config,        *)
(* get_property and get_properties on the configuration file, and          *)
(* address_list_from_arguments on what they give.                          *)
(*                                                                         *)
(* A configuration is a sequence of objects; a property an object does not *)
(* have is Absent.  A text is a sequence of characters, of which 0 to 9    *)
(* are the digits.  The arrays of main are not initialised, and what is    *)
(* not set in them may have any value.                                     *)
(***************************************************************************)
EXTENDS Integers, Sequences, SequencesExt

CONSTANTS
    Hosts,            \* the names gethostbyname knows
    HIGHEST_IP_PORT, MAX_ADDRESSES,
    Absent, Unreadable,
    Configs           \* the files pcapmerger may be started with

Text == Seq(Nat)

(* A value in the file, a string in quotes or a number *)
Value == [quoted : BOOLEAN, text : Text]

(* An object of the file: untunnel_gtp and distribution_server_array *)
Entry   == [host : Value \cup {Absent}, port : Value \cup {Absent}]
Element == [untunnel_gtp : Value \cup {Absent}, distribution_server_array : Seq(Entry)]

ASSUME ConfigsAssumption ==
    /\ HIGHEST_IP_PORT \in Nat /\ MAX_ADDRESSES \in Nat
    /\ Configs \ {Unreadable} \subseteq Seq(Element)

VARIABLES
    merger_main,   \* where main of pcapmerger is
    config_def,
    untunnel,
    host_values, port_values,
    servers

configVars == <<merger_main, config_def, untunnel, host_values, port_values, servers>>

ConfigInit == /\ merger_main = "starting"
              /\ config_def = <<>>
              /\ untunnel = FALSE
              /\ host_values = <<>> /\ port_values = <<>>
              /\ servers = <<>>

-----------------------------------------------------------------------------
(* What is copied of a value: all but the first and the last character of  *)
(* its JSON text, which are the quotes, if it has them.                    *)
Stripped(v) ==
    IF v.quoted THEN v.text ELSE [k \in 1 .. Len(v.text) - 2 |-> v.text[k + 1]]

(* The first object that has the property decides, and nothing is copied   *)
(* if none has                                                             *)
get_property(c, name) ==
    LET having == {k \in DOMAIN c : c[k][name] # Absent}
    IN {Stripped(c[k][name]) : k \in {k \in having : \A j \in having : k <= j}}

(* The number at the beginning of a text *)
atoi(text) ==
    LET digits == {n \in 0 .. Len(text) : \A k \in 1 .. n : text[k] < 10}
        number[n \in 0 .. Len(text)] ==
            IF n = 0 THEN 0
            ELSE IF n \in digits THEN 10 * number[n - 1] + text[n]
            ELSE number[n - 1]
    IN number[Len(text)]

(* Mutant: offset and result begin anew for every object *)
ServerEntries_LastOnly(c) == c[Len(c)].distribution_server_array

(* The entries of all the server arrays, in their order *)
ServerEntries(c) ==
    FlattenSeq([k \in DOMAIN c |-> c[k].distribution_server_array])

(* Mutant: an entry without the property ends the loop *)
get_properties_Breaks(c, name) ==
    LET entries == ServerEntries(c)
        values[n \in 0 .. Len(entries)] ==
            IF n = 0 THEN <<>>
            ELSE IF \E k \in 1 .. n : entries[k][name] = Absent THEN values[n - 1]
            ELSE Append(values[n - 1], Stripped(entries[n][name]))
    IN values[Len(entries)]

(* The values the property has in the entries that have it *)
get_properties(c, name) ==
    LET entries == ServerEntries(c)
        values[n \in 0 .. Len(entries)] ==
            IF n = 0 THEN <<>>
            ELSE IF entries[n][name] = Absent THEN values[n - 1]
            ELSE Append(values[n - 1], Stripped(entries[n][name]))
    IN values[Len(entries)]

(* get_config_file_path and read_filter_config, and the exit on <= 0 *)
ReadConfig(c) ==
    /\ IF c = Unreadable \/ c = <<>>
         THEN merger_main' = "exited" /\ UNCHANGED config_def
         ELSE merger_main' = "read" /\ config_def' = c
    /\ UNCHANGED <<untunnel, host_values, port_values, servers>>

(* Mutant: one address more is let through *)
BeyondArrays_OffByOne(values) == Len(values) > MAX_ADDRESSES + 1

(* More values than MAX_ADDRESSES are written beyond the arrays *)
BeyondArrays(values) == Len(values) > MAX_ADDRESSES

(* The properties are copied from the configuration *)
GetProperties ==
    /\ merger_main = "read"
    /\ LET values == get_property(config_def, "untunnel_gtp")
       IN untunnel' \in IF values = {} THEN BOOLEAN ELSE {atoi(v) # 0 : v \in values}
    /\ host_values' = get_properties(config_def, "host")
    /\ port_values' = get_properties(config_def, "port")
    /\ merger_main' \in {"counting"} \cup
          (IF BeyondArrays(host_values') \/ BeyondArrays(port_values')
             THEN {"crashed"} ELSE {})
    /\ UNCHANGED <<config_def, servers>>

(* "Sanity check that host and port counts are the same", and the loop     *)
(* that prints them: get_properties returns -1 for none, which is the      *)
(* largest size_t                                                          *)
CountServers ==
    /\ merger_main = "counting"
    /\ merger_main' = CASE Len(host_values) # Len(port_values) -> "exited"
                        [] host_values = <<>> -> "crashed"
                        [] OTHER -> "addressing"
    /\ UNCHANGED <<config_def, untunnel, host_values, port_values, servers>>

(* Whether a socket address can be made *)
get_sockaddr_in(host, port) == atoi(port) \in 1 .. HIGHEST_IP_PORT /\ host \in Hosts

(* address_list_from_arguments, which gives up at the first error *)
AddressList ==
    /\ merger_main = "addressing"
    /\ IF /\ ~BeyondArrays(host_values)
          /\ \A k \in DOMAIN host_values : get_sockaddr_in(host_values[k], port_values[k])
         THEN /\ merger_main' = "sessions"
              /\ servers' = [k \in DOMAIN host_values |->
                                [host |-> host_values[k], port |-> port_values[k]]]
         ELSE merger_main' = "exited" /\ UNCHANGED servers
    /\ UNCHANGED <<config_def, untunnel, host_values, port_values>>

ConfigNext == \/ merger_main = "starting" /\ \E c \in Configs : ReadConfig(c)
              \/ GetProperties \/ CountServers \/ AddressList

ConfigSpec == ConfigInit /\ [][ConfigNext]_configVars

-----------------------------------------------------------------------------
ConfigTypeOK ==
    /\ merger_main \in {"starting", "read", "counting", "addressing", "sessions",
                        "exited", "crashed"}
    /\ untunnel \in BOOLEAN
    /\ Len(servers) <= MAX_ADDRESSES

AllEntries == FlattenSeq([k \in DOMAIN config_def |->
                              config_def[k].distribution_server_array])

Complete(e) == e.host # Absent /\ e.port # Absent /\ e.host.quoted /\ e.port.quoted

(* The server an entry in which nothing is missing stands for *)
Server(e) == [host |-> e.host.text, port |-> e.port.text]

(* Sessions are opened for exactly the servers of the file, in its order   *)
(* and over all its objects, if no entry lacks its host or its port, and   *)
(* both are in quotes: the hosts and the ports are read by two passes that *)
(* only compare counts.                                                    *)
ServersAreEntries ==
    merger_main = "sessions" /\ (\A k \in DOMAIN AllEntries : Complete(AllEntries[k]))
        => /\ servers = [k \in DOMAIN AllEntries |-> Server(AllEntries[k])]
           /\ Len(servers) \in 1 .. MAX_ADDRESSES

(* The values are those of the entries that have the property, in the      *)
(* order of the file: at is where each of them stands in it.               *)
CopiedInOrder(at, values, entries, n, name) ==
    /\ \A k \in 1 .. Len(values) : /\ entries[at[k]][name] # Absent
                                   /\ values[k] = Stripped(entries[at[k]][name])
    /\ \A j, k \in 1 .. Len(values) : j < k => at[j] < at[k]
    /\ \A i \in 1 .. n : entries[i][name] # Absent
                            <=> \E k \in 1 .. Len(values) : at[k] = i

(* In any file: the k-th server has the host of the k-th entry that has    *)
(* one, and the port of the k-th entry that has one, and no host and no    *)
(* port of the file is left out.                                           *)
ServersCopiedInOrder ==
    merger_main = "sessions" =>
        \A name \in {"host", "port"} :
            \E at \in [1 .. Len(servers) -> 1 .. Len(AllEntries)] :
                CopiedInOrder(at, [k \in 1 .. Len(servers) |-> servers[k][name]],
                              AllEntries, Len(AllEntries), name)

(* A file in which one entry has no host and another no port is refused.   *)
(* The code pairs the host of the one with the port of the other.          *)
ServersArePaired ==
    merger_main = "sessions" => \A k \in DOMAIN servers :
        \E j \in DOMAIN AllEntries : Complete(AllEntries[j]) /\ servers[k] = Server(AllEntries[j])

(* A number is read as it stands in the file.  The code takes its first    *)
(* and its last digit for quotes.                                          *)
NumbersAreRead ==
    merger_main = "sessions" => \A k \in DOMAIN servers :
        \E j \in DOMAIN AllEntries : /\ AllEntries[j].port # Absent
                                     /\ servers[k].port = AllEntries[j].port.text

(* A file that names no server makes main exit, for get_properties gives   *)
(* -1 for "Failure or not present".  The code prints beyond its arrays.    *)
EmptyFileExits == AllEntries = <<>> => merger_main # "crashed"
=============================================================================
