------------------------------ MODULE CfgRead ------------------------------
(* The configuration reader, cfg-read.c: what the callbacks of the parser do to the
   dictionaries and to the list of resources, with the constructors of the four
   kinds of block, and the end of the startup in sighttpd_init. The order in which
   the callbacks come is left open here. *)
EXTENDS Dictionary

CONSTANTS
    Name, Value,        \* what the parser hands over; Fold(n) is in Name too
    Kind(_),            \* which of the four prefixes the name of a block has, if any
    Listen, Path, Type, Text, CtlFile, Preview,    \* directives, in lower case
    DefaultType,        \* DEFAULT_CONTENT_TYPE
    On(_), Off(_),      \* the values that turn the preview on and off
    Resolves(_),        \* the values that are a port or a known service
    MAX_ENCODERS

ASSUME NullAssumption == NULL \notin Value
ASSUME LowerAssumption == Fold(Listen) = Listen
ASSUME EncodersAssumption == MAX_ENCODERS \in Nat

VARIABLES
    dictionary,   \* cfg->dictionary
    block_dict,   \* cfg->block_dict, NULL outside a block
    resources,    \* cfg->resources, then sighttpd->resources
    oggstdin_pvt, \* the one struct oggstdin
    pvt,          \* struct private_data of shrecord.c
    phase,        \* "reading", "serving" or "exited"
    port,
    \* history
    given,        \* the last value given to each name outside blocks
    block_given,  \* and in the open block
    origin        \* for each resource, what its block gave

tables == <<dictionary, block_dict, given, block_given>>
served == <<resources, oggstdin_pvt, pvt, origin>>
vars == <<tables, served, phase, port>>

Nothing == [path |-> NULL, type |-> NULL]

Init ==
    /\ dictionary = dictionary_new
    /\ block_dict = NULL
    /\ resources = <<>>
    /\ oggstdin_pvt = Nothing
    /\ pvt = [nr_encoders |-> 0, do_preview |-> TRUE,
              encdata |-> [i \in 0 .. MAX_ENCODERS |-> [path |-> NULL, ctlfile |-> NULL]]]
    /\ phase = "reading"
    /\ port = NULL
    /\ given = <<>>
    /\ block_given = <<>>
    /\ origin = <<>>
-----------------------------------------------------------------------------
TypeOf(table) ==
    LET type == dictionary_lookup(table, Type)
    IN  IF type = NULL THEN DefaultType ELSE type

Resource(kind) == [kind |-> kind, path |-> NULL, text |-> NULL, type |-> NULL, slot |-> NULL]

\* list_join of the list with one of at most one resource.
Joins(new, from) ==
    /\ resources' = resources \o new
    /\ origin' = origin \o [i \in DOMAIN new |-> from]

statictext_resources(table) ==
    LET path == dictionary_lookup(table, Path)
        text == dictionary_lookup(table, Text)
    IN  IF path = NULL \/ text = NULL THEN <<>>
        ELSE <<[Resource("StaticText") EXCEPT !.path = path, !.text = text, !.type = TypeOf(table)]>>

fdstream_resources_Outside(table) ==
    LET path == dictionary_lookup(dictionary, Path)
    IN  IF path = NULL THEN <<>>
        ELSE <<[Resource("Stdin") EXCEPT !.path = path, !.type = TypeOf(table)]>>

fdstream_resources(table) ==
    LET path == dictionary_lookup(table, Path)
    IN  IF path = NULL THEN <<>>
        ELSE <<[Resource("Stdin") EXCEPT !.path = path, !.type = TypeOf(table)]>>

\* Each of these resources is the same struct, which the latest block fills in.
oggstdin_resources(table) ==
    LET path == dictionary_lookup(table, Path)
    IN  IF path = NULL
        THEN Joins(<<>>, block_given) /\ UNCHANGED oggstdin_pvt
        ELSE /\ Joins(<<Resource("OggStdin")>>, block_given)
             /\ oggstdin_pvt' = [path |-> path, type |-> TypeOf(table)]

\* The encoder's place is the next of encdata. The bound lets one more in than the array
\* has: its path lies over pfds, shrecord_pid, pid and do_preview, which becomes one of
\* its characters or a 0 behind it. The control file and the fifo are made outside: they
\* may fail when the place has been written already.
shrecord_resource(path, ctlfile) ==
    LET n == pvt.nr_encoders
        Placed(preview) == [pvt EXCEPT !.encdata[n] = [path |-> path, ctlfile |-> ctlfile],
                                       !.do_preview = preview]
        previews == IF n = MAX_ENCODERS THEN BOOLEAN ELSE {pvt.do_preview}
    IN  IF n > MAX_ENCODERS
        THEN {<<pvt, <<>>>>}
        ELSE {<<Placed(preview), <<>>>> : preview \in previews}
             \cup {<<[Placed(preview) EXCEPT !.nr_encoders = n + 1],
                     <<[Resource("SHRecord") EXCEPT !.slot = n]>>>> : preview \in previews}

\* What a store to pfds, shrecord_pid, pid or do_preview does to the encoder that lies
\* over them: its path changes, to none that was given, or ends before that place.
Overlaid(p) ==
    IF p.nr_encoders > MAX_ENCODERS
    THEN {p, [p EXCEPT !.encdata[MAX_ENCODERS].path = NULL]}
    ELSE {p}

\* Every call stores the pid, to which a place taken in the same call comes later.
shrecord_resources(table) ==
    LET path == dictionary_lookup(table, Path)
        ctlfile == dictionary_lookup(table, CtlFile)
        preview == dictionary_lookup(table, Preview)
        on == preview # NULL /\ On(preview)
        off == preview # NULL /\ Off(preview)
        stores == on \/ off \/ pvt.nr_encoders > MAX_ENCODERS
        Shown(p) == [p EXCEPT !.do_preview = on \/ (@ /\ ~off)]
    IN  \E made \in IF path = NULL \/ ctlfile = NULL THEN {<<pvt, <<>>>>}
                    ELSE shrecord_resource(path, ctlfile) :
            /\ Joins(made[2], block_given)
            /\ pvt' \in IF stores THEN Overlaid(Shown(made[1])) ELSE {made[1]}
-----------------------------------------------------------------------------
\* A block within a block: COPA_STOP_ERR.
cfg_read_block_start_nested == block_dict # NULL /\ UNCHANGED vars

cfg_read_block_start ==
    /\ block_dict = NULL
    /\ block_dict' = dictionary_new
    /\ block_given' = <<>>
    /\ UNCHANGED <<dictionary, given, served, phase, port>>

\* The end of no block: COPA_STOP_ERR.
cfg_read_block_end_outside == block_dict = NULL /\ UNCHANGED vars

cfg_read_block_end(name) ==
    /\ block_dict # NULL
    /\ \/ /\ Kind(name) = "StaticText"
          /\ Joins(statictext_resources(block_dict), block_given)
          /\ UNCHANGED <<oggstdin_pvt, pvt>>
       \/ /\ Kind(name) = "Stdin"
          /\ Joins(fdstream_resources(block_dict), block_given)
          /\ UNCHANGED <<oggstdin_pvt, pvt>>
       \/ /\ Kind(name) = "OggStdin"
          /\ oggstdin_resources(block_dict)
          /\ UNCHANGED pvt
       \/ /\ Kind(name) = "SHRecord"
          /\ shrecord_resources(block_dict)
          /\ UNCHANGED oggstdin_pvt
       \/ /\ Kind(name) = "other"
          /\ UNCHANGED served
    /\ block_dict' = NULL
    /\ UNCHANGED <<dictionary, given, block_given, phase, port>>

cfg_read_assign(name, value) ==
    \/ /\ block_dict # NULL
       /\ block_dict' \in dictionary_insert(block_dict, name, value)
       /\ block_given' = Give(block_given, name, value)
       /\ UNCHANGED <<dictionary, given, served, phase, port>>
    \/ /\ block_dict = NULL
       /\ dictionary' \in dictionary_insert(dictionary, name, value)
       /\ given' = Give(given, name, value)
       /\ UNCHANGED <<block_dict, block_given, served, phase, port>>

Override_Lost(value) ==
    /\ phase = "reading"
    /\ phase' = "starting"
    /\ given' = Give(given, Listen, value)
    /\ UNCHANGED <<dictionary, block_dict, block_given, served, port>>

\* main: a port on the command line goes to the dictionary like a directive.
Override(value) ==
    /\ phase = "reading"
    /\ phase' = "starting"
    /\ dictionary' \in dictionary_insert(dictionary, Listen, value)
    /\ given' = Give(given, Listen, value)
    /\ UNCHANGED <<block_dict, block_given, served, port>>

Builtin == [i \in 1 .. 4 |-> Resource(<<"status", "flim", "uiomux", "kongou">>[i])]

\* sighttpd_init: without a port it calls exit.
sighttpd_init ==
    LET portname == dictionary_lookup(dictionary, Listen)
        known == portname # NULL /\ Resolves(portname)
    IN  /\ phase \in {"reading", "starting"}
        /\ \/ /\ ~known
              /\ phase' = "exited"
              /\ UNCHANGED <<port, served>>
           \/ /\ known
              /\ phase' = "serving"
              /\ port' = portname
              /\ Joins(Builtin \o statictext_resources(dictionary), given)
              /\ UNCHANGED <<oggstdin_pvt, pvt>>
        /\ UNCHANGED tables

\* The thread that main starts behind sighttpd_init stores the pid of the recorder and
\* fills in pfds, for as many encoders as there are.
shrecord_main ==
    /\ phase = "serving"
    /\ pvt' \in Overlaid(pvt)
    /\ UNCHANGED <<tables, resources, oggstdin_pvt, origin, phase, port>>

\* The callbacks, while the file is read.
Callback ==
    /\ phase = "reading"
    /\ \/ cfg_read_block_start
       \/ cfg_read_block_start_nested
       \/ cfg_read_block_end_outside
       \/ \E name \in Name : cfg_read_block_end(name)
       \/ \E name \in Name, value \in Value : cfg_read_assign(name, value)

Next ==
    \/ Callback
    \/ \E value \in Value : Override(value)
    \/ sighttpd_init
    \/ shrecord_main

CfgReadSpec == Init /\ [][Next]_vars
-----------------------------------------------------------------------------
\* dictionary_lookup gives the last value assigned to a name in its block, or nothing,
\* wherever x_tree_insert put the entries of the bucket.
LookupNeverStale ==
    /\ NeverStale(dictionary, given)
    /\ block_dict # NULL => NeverStale(block_dict, block_given)

\* It gives nothing only for a name that shares its bucket with another one.
LookupFindsAlone ==
    /\ AloneFound(dictionary, given)
    /\ block_dict # NULL => AloneFound(block_dict, block_given)

\* The entries of a bucket form one binary tree.
TreesShaped ==
    /\ TreeShaped(dictionary)
    /\ block_dict # NULL => TreeShaped(block_dict)

\* The entries that a lookup finds in one table are found in the other.
Kept(table, after) ==
    \A i \in DOMAIN table : i \in x_tree_find(table, table[i].name) =>
        i \in DOMAIN after /\ i \in x_tree_find(after, table[i].name)

\* Whatever is inserted behind it, an entry that a lookup has found is found by every
\* later one: outside blocks for good, inside one until the block ends.
FoundStaysFound ==
    [][/\ Kept(dictionary, dictionary')
       /\ block_dict # NULL /\ block_dict' # NULL => Kept(block_dict, block_dict')]_vars

PathOf(r) ==
    CASE r.kind = "OggStdin" -> oggstdin_pvt.path
      [] r.kind = "SHRecord" -> pvt.encdata[r.slot].path
      [] OTHER               -> r.path

TypeServed(r) == IF r.kind = "OggStdin" THEN oggstdin_pvt.type ELSE r.type

\* No other name that was given falls into the bucket of this one.
Secluded(gift, name) ==
    \A n \in DOMAIN gift : Hash(n) = Hash(Fold(name)) => n = Fold(name)

\* A type that was given is served, unless a companion in its bucket may hide it.
TypeMeant(type, gift) ==
    \/ type # NULL /\ type = Given(gift, Type)
    \/ type = DefaultType /\ (Given(gift, Type) = NULL \/ ~Secluded(gift, Type))

\* Each resource of the configuration answers at the path that its own block was handed
\* last, with the text of that block and its type, or the default one if it has none:
\* nothing comes from another block, from outside or from an earlier assignment. The
\* exceptions are an OggStdin block with another one behind it and the encoder that lies
\* behind the array.
ServedAsConfigured ==
    \A i \in {j \in DOMAIN resources : resources[j].kind \in {"StaticText", "Stdin", "OggStdin", "SHRecord"}} :
        LET r == resources[i]
        IN  \/ r.kind = "OggStdin" /\ \E j \in DOMAIN resources : j > i /\ resources[j].kind = "OggStdin"
            \/ r.kind = "SHRecord" /\ r.slot = MAX_ENCODERS
            \/ /\ PathOf(r) = Given(origin[i], Path)
               /\ r.kind # "SHRecord" => TypeMeant(TypeServed(r), origin[i])
               /\ r.kind = "StaticText" => r.text = Given(origin[i], Text)

\* The server listens where the command line says, or else at the last Listen outside
\* blocks that was handed over; it refuses to start only without one, or when a name in
\* the same bucket hid it.
PortAsConfigured ==
    /\ phase = "serving" => port = Given(given, Listen) /\ Resolves(port)
    /\ phase = "exited" => \/ Listen \notin DOMAIN given
                           \/ ~Resolves(given[Listen])
                           \/ ~Alone(dictionary, Listen)
=============================================================================
