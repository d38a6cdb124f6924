------------------------------- MODULE Params -------------------------------
(* params.c: lists of names and values, their parsers and their printer. Two sets
   are used as params_test.c and the server use them: dest is built by calls, src
   comes from the query of a request (kongou.c) and is merged into dest.

   Text is a sequence of characters; NUL, which ends a string of C, is one of them. *)
EXTENDS List

CONSTANTS
    Key, Value,    \* what the calls are given
    Fold(_),       \* a name in lower case
    Query,         \* the queries that are parsed
    MaxValue,      \* bound on the length of a value
    MaxBuffer,     \* bound on the size of the buffer that is printed to
    SizeMod        \* 2 to the width of size_t

ASSUME PrintAssumption ==
    MaxValue \in Nat /\ MaxBuffer \in Nat /\ SizeMod \in Nat /\ SizeMod > MaxBuffer

NUL == "nul"

\* Strings of C.
ASSUME TextAssumption ==
    \A text \in Key \cup Value \cup Query : text \in Seq(ToSet(text)) /\ NUL \notin ToSet(text)

Style == {"query", "headers"}

VARIABLES
    mem,      \* the heap
    dest, src,
    query,    \* history: the query that src has just come from, or NULL
    stuck     \* the parser does not return

vars == <<mem, dest, src, query, stuck>>

Init ==
    /\ mem = Empty
    /\ dest = list_new
    /\ src = list_new
    /\ query = NULL
    /\ stuck = FALSE

\* The entries of a list, in order.
Entries(m, list) == LET walk == Walk(m, list) IN [i \in DOMAIN walk |-> m.node[walk[i]].data]
-----------------------------------------------------------------------------
(* The calls that change a set: each gives the results there may be. *)

\* The first entry of that name, as a set of at most one node.
Match(m, list, name) ==
    LET walk == Walk(m, list)
        same == {i \in DOMAIN walk : Fold(m.node[walk[i]].data.key) = Fold(name)}
    IN  IF same = {} THEN {} ELSE {walk[Min(same)]}

params_get(m, list, name) ==
    IF Match(m, list, name) = {} THEN NULL
    ELSE m.node[CHOOSE x \in Match(m, list, name) : TRUE].data.value

params_add(m, list, key, value) == list_append(m, list, [key |-> key, value |-> value])

params_append_Exact(m, list, key, value) ==
    LET at == {x \in Match(m, list, key) : m.node[x].data.key = key}
    IN  IF at = {} THEN params_add(m, list, key, value)
        ELSE {[head |-> list, mem |-> [m EXCEPT !.node[x].data.value = @ \o <<",">> \o value]] : x \in at}

params_append(m, list, key, value) ==
    LET at == Match(m, list, key)
    IN  IF at = {} THEN params_add(m, list, key, value)
        ELSE {[head |-> list, mem |-> [m EXCEPT !.node[x].data.value = @ \o <<",">> \o value]] : x \in at}

params_replace(m, list, key, value) ==
    LET at == Match(m, list, key)
    IN  IF at = {} THEN params_add(m, list, key, value)
        ELSE {[head |-> list, mem |-> [m EXCEPT !.node[x].data.value = value]] : x \in at}

params_merge(m, to, from) ==
    FoldLeft(LAMBDA results, entry :
                UNION {params_append(r.mem, r.head, entry.key, entry.value) : r \in results},
             {[head |-> to, mem |-> m]}, Entries(m, from))

\* The one call that compares names with strcmp.
params_remove(m, list, key) ==
    LET walk == Walk(m, list)
        same == {i \in DOMAIN walk : m.node[walk[i]].data.key = key}
        x == walk[Min(same)]
        rest == list_remove(m, list, x)
    IN  IF same = {} THEN [head |-> list, mem |-> m]
        ELSE [rest EXCEPT !.mem = Freed(@, {x})]

params_free(m, list) == list_free_with(m, list)
-----------------------------------------------------------------------------
(* The parsers. *)

End(s, i, stops) == Min({j \in i .. Len(s) + 1 : j = Len(s) + 1 \/ s[j] \in stops})
strcspn(s, i, set) == End(s, i, set \cup {NUL}) - i
strspn(s, i, set) == Min({j \in i .. Len(s) + 1 : j = Len(s) + 1 \/ s[j] \notin set}) - i
String(s, i) == SubSeq(s, i, i + strcspn(s, i, {}) - 1)
memset(s, i, n) == [j \in DOMAIN s |-> IF j \in i .. i + n - 1 THEN NUL ELSE s[j]]

Pass_BareName(s, key, val_delim, end_delim) ==
    LET val == key + strcspn(s, key, val_delim)
        end == key + strcspn(s, key, end_delim)
        valued == val > key /\ val <= end
        cut == IF valued THEN memset(s, val, strspn(s, val, val_delim)) ELSE s
        value == val + strspn(s, val, val_delim)
        next == end + strspn(cut, end, end_delim)
        t == memset(cut, end, next - end)
    IN  [ends  |-> end = key,
         text  |-> t,
         next  |-> next,
         field |-> IF valued THEN <<[key |-> String(t, key), value |-> String(t, value)]>> ELSE <<>>]

Pass_OneDelim(s, key, val_delim, end_delim) ==
    LET val == key + strcspn(s, key, val_delim)
        end == key + strcspn(s, key, end_delim)
        valued == val > key /\ val < end
        cut == IF valued THEN memset(s, val, 1) ELSE s
        next == end + strspn(cut, end, end_delim)
        t == memset(cut, end, next - end)
    IN  [ends  |-> end = key,
         text  |-> t,
         next  |-> next,
         field |-> IF valued THEN <<[key |-> String(t, key), value |-> String(t, val + 1)]>> ELSE <<>>]

\* One pass of the loop over s from key: the field it finds, as a sequence of at most
\* one, the string it leaves and where the field ends. A field without val_delim is not
\* taken, and what follows it is cut off.
Pass(s, key, val_delim, end_delim) ==
    LET val == key + strcspn(s, key, val_delim)
        end == key + strcspn(s, key, end_delim)
        valued == val > key /\ val < end
        cut == IF valued THEN memset(s, val, strspn(s, val, val_delim)) ELSE s
        value == val + strspn(s, val, val_delim)
        next == end + strspn(cut, end, end_delim)
        t == memset(cut, end, next - end)
    IN  [ends  |-> end = key,
         text  |-> t,
         next  |-> next,
         field |-> IF valued THEN <<[key |-> String(t, key), value |-> String(t, value)]>> ELSE <<>>]

\* The pairs in order, or NULL when the loop goes on for ever: a pass that takes a field
\* moves key, and of two that do not the second changes nothing.
params_new_parse_delim(s, val_delim, end_delim) ==
    LET after[passes \in 0 .. Len(s) + 2] ==
            IF passes = 0 THEN [text |-> s, key |-> 1, pairs |-> <<>>, ends |-> FALSE]
            ELSE LET was  == after[passes - 1]
                     pass == Pass(was.text, was.key, val_delim, end_delim)
                 IN  IF pass.ends THEN [was EXCEPT !.ends = TRUE]
                     ELSE [text  |-> pass.text,
                           key   |-> IF pass.field = <<>> THEN was.key ELSE pass.next,
                           pairs |-> was.pairs \o pass.field,
                           ends  |-> FALSE]
        last == after[Len(s) + 2]
    IN  IF last.ends THEN last.pairs ELSE NULL

params_new_parse_query(s) == params_new_parse_delim(s, {"="}, {"&"})

\* Runs of blanks become one, and so do line ends with the blanks behind them; two line
\* ends are the end. NULL without them.
headers_canonicalize(s) ==
    LET after[passes \in 0 .. Len(s) + 1] ==
            IF passes = 0 THEN [from |-> 1, new |-> <<>>, ends |-> FALSE]
            ELSE LET was == after[passes - 1]
                     word == was.from + strcspn(s, was.from, {" ", "\r", "\n"})
                     blank == word + strspn(s, word, {" "})
                     eol == blank + strspn(s, blank, {"\r", "\n"})
                     fold == eol + strspn(s, eol, {" "})
                     before == was.new \o SubSeq(s, was.from, word - 1)
                                      \o (IF blank > word THEN <<" ">> ELSE <<>>)
                     times(c) == Cardinality({i \in blank .. eol - 1 : s[i] = c})
                     line == IF eol = blank THEN <<>>
                             ELSE IF fold > eol THEN <<" ">> ELSE <<"\r", "\n">>
                 IN  IF was.ends \/ was.from > Len(s) THEN was
                     ELSE IF times("\r") >= 2 \/ times("\n") >= 2
                     THEN [was EXCEPT !.new = before, !.ends = TRUE]
                     ELSE [was EXCEPT !.from = fold, !.new = before \o line]
        last == after[Len(s) + 1]
    IN  IF last.ends THEN last.new ELSE NULL

params_new_parse_headers(s) ==
    LET headers == headers_canonicalize(s)
    IN  IF headers = NULL THEN <<>>
        ELSE params_new_parse_delim(headers, {":", " "}, {"\r", "\n"})
-----------------------------------------------------------------------------
(* The printer. What is written is a function of the offsets in the buffer. *)

Line(entry, style) ==
    IF style = "query" THEN entry.key \o <<"=">> \o entry.value \o <<"&">>
    ELSE entry.key \o <<":", " ">> \o entry.value \o <<"\r", "\n">>

Write(buf, at, text) ==
    [o \in DOMAIN buf \cup at .. at + Len(text) - 1 |->
        IF o \in at .. at + Len(text) - 1 THEN text[o - at + 1] ELSE buf[o]]

\* snprintf: at most n - 1 characters and a NUL, nothing at all for n = 0.
snprintf(buf, at, n, text) ==
    IF n = 0 THEN buf ELSE Write(buf, at, SubSeq(text, 1, Min({Len(text), n - 1})) \o <<NUL>>)

\* One line after the other, each where the last one ended.
snprint_params_format(n, entries, style) ==
    FoldLeft(LAMBDA out, entry :
                LET text == Line(entry, style)
                    len == Len(text)
                IN  [buf   |-> snprintf(out.buf, out.total, out.n, text),
                     n     |-> IF len <= out.n THEN out.n - len ELSE 0,
                     total |-> out.total + len],
             [buf |-> <<>>, n |-> n, total |-> 0], entries)

params_snprint_Fills(n, entries, style) ==
    LET out == snprint_params_format(n, entries, style)
        short == (out.total - 1) % SizeMod
        room == n > 0 /\ out.total <= (n - 2) % SizeMod
    IN  IF style = "query"
        THEN [len |-> short, buf |-> IF short <= n THEN Write(out.buf, short, <<NUL>>) ELSE out.buf]
        ELSE [len |-> out.total + 2,
              buf |-> IF room THEN Write(out.buf, out.total, <<"\r", "\n", NUL>>) ELSE out.buf]

\* The last & of a query goes, headers get an empty line. Lengths are of type size_t.
params_snprint(n, entries, style) ==
    LET out == snprint_params_format(n, entries, style)
        short == (out.total - 1) % SizeMod
        room == n > 0 /\ out.total < (n - 2) % SizeMod
    IN  IF style = "query"
        THEN [len |-> short, buf |-> IF short <= n THEN Write(out.buf, short, <<NUL>>) ELSE out.buf]
        ELSE [len |-> out.total + 2,
              buf |-> IF room THEN Write(out.buf, out.total, <<"\r", "\n", NUL>>) ELSE out.buf]
-----------------------------------------------------------------------------
Within(m, list) == \A entry \in ToSet(Entries(m, list)) : Len(entry.value) <= MaxValue

\* A call on dest has given a result.
Dest(result) ==
    /\ ~stuck
    /\ Within(result.mem, result.head)
    /\ mem' = result.mem
    /\ dest' = result.head
    /\ UNCHANGED <<src, stuck>>
    /\ query' = NULL

AppendField(key, value) == \E result \in params_append(mem, dest, key, value) : Dest(result)
ReplaceField(key, value) == \E result \in params_replace(mem, dest, key, value) : Dest(result)
RemoveField(key)         == Dest(params_remove(mem, dest, key))
Merge               == \E result \in params_merge(mem, dest, src) : Dest(result)
Free                == Dest(params_free(mem, dest))

FreeSrc ==
    /\ ~stuck
    /\ LET result == params_free(mem, src) IN mem' = result.mem /\ src' = result.head
    /\ query' = NULL
    /\ UNCHANGED <<dest, stuck>>

\* params_new_parse of a query: the pairs are appended as they are found. A bound: it
\* comes before dest is built.
Parse(text) ==
    /\ ~stuck
    /\ src = list_new
    /\ dest = list_new
    /\ LET pairs == params_new_parse_query(text)
       IN  \/ /\ pairs = NULL
              /\ stuck' = TRUE
              /\ UNCHANGED <<mem, src>>
           \/ /\ pairs # NULL
              /\ UNCHANGED stuck
              /\ \E result \in
                    FoldLeft(LAMBDA results, pair :
                                UNION {params_append(r.mem, r.head, pair.key, pair.value) : r \in results},
                             {[head |-> src, mem |-> mem]}, pairs) :
                    mem' = result.mem /\ src' = result.head
    /\ query' = text
    /\ UNCHANGED dest

Next ==
    \/ \E key \in Key, value \in Value : AppendField(key, value) \/ ReplaceField(key, value)
    \/ \E key \in Key : RemoveField(key)
    \/ Merge
    \/ Free
    \/ FreeSrc
    \/ \E text \in Query : Parse(text)

Spec == Init /\ [][Next]_vars
-----------------------------------------------------------------------------
\* The lists are chains in both directions, have no node in common, and no node that
\* malloc has handed out is on neither: nothing dangles or leaks.
ListsSound ==
    /\ Chained(mem, dest)
    /\ Chained(mem, src)
    /\ ToSet(Walk(mem, dest)) \cap ToSet(Walk(mem, src)) = {}
    /\ mem.live = ToSet(Walk(mem, dest)) \cup ToSet(Walk(mem, src))

F == INSTANCE Fields WITH Comma <- ","

FieldsOf(entries) == [i \in DOMAIN entries |-> [name |-> Fold(entries[i].key), value |-> entries[i].value]]
Fields(m, list) == FieldsOf(Entries(m, list))

\* A call on dest leaves it with these fields, and src with those it had.
Gives(result, fields) ==
    Fields(result.mem, result.head) = fields /\ Fields(result.mem, src) = Fields(mem, src)

Spelt(key) == \E entry \in ToSet(Entries(mem, dest)) : entry.key = key

\* params.h: names are unique, their case does not matter, and each call does to the
\* field of its name what it says, and nothing to another field or another set: whatever
\* calls were made before, whatever the call, and whichever nodes malloc hands out.
\* Against params.h:15 a removal in another spelling than the entry's does nothing.
CallsMean ==
    LET fields == Fields(mem, dest)
        others == Fields(mem, src)
    IN  /\ F!Unique(fields) /\ F!Unique(others)
        /\ \A key \in Key, value \in Value :
              /\ \A result \in params_append(mem, dest, key, value) :
                    Gives(result, F!Joined(fields, Fold(key), value))
              /\ \A result \in params_replace(mem, dest, key, value) :
                    Gives(result, F!Replaced(fields, Fold(key), value))
        /\ \A key \in Key :
              Gives(params_remove(mem, dest, key),
                    IF Spelt(key) THEN F!Removed(fields, Fold(key)) ELSE fields)
        /\ \A result \in params_merge(mem, dest, src) : Gives(result, F!Merged(fields, others))
        /\ Gives(params_free(mem, dest), <<>>)
        /\ Fields(params_free(mem, src).mem, dest) = fields

\* The string that a buffer holds.
Text(buf) ==
    LET end == Min({o \in DOMAIN buf : buf[o] = NUL})
    IN  [i \in 1 .. end |-> buf[i - 1]]

\* What is printed to a buffer with room for it is parsed back, as a query and as
\* headers. No Value begins with what separates it from its name.
RoundTrip ==
    LET entries == Entries(mem, dest)
        room == FoldLeft(LAMBDA n, entry : n + Len(Line(entry, "headers")), 4, entries)
        back(style) == LET text == Text(params_snprint(room, entries, style).buf)
                       IN  IF style = "query" THEN params_new_parse_query(text)
                           ELSE params_new_parse_headers(text)
    IN  entries # <<>> => back("query") = entries /\ back("headers") = entries

\* params_snprint writes nothing outside the buffer, says the length of the whole text
\* whatever the buffer's, and prints all of it when it fits; but for the empty query,
\* a query of one character more than the buffer has room for, and a buffer of 1.
PrintFits ==
    LET entries == Entries(mem, dest)
    IN  \A style \in Style :
            LET lines == FlattenSeq([i \in DOMAIN entries |-> Line(entries[i], style)])
                whole == IF style = "query" THEN SubSeq(lines, 1, Len(lines) - 1)
                         ELSE lines \o <<"\r", "\n">>
                odd(n) == IF style = "query" THEN lines = <<>> \/ Len(whole) = n ELSE n = 1
            IN  \A n \in {k \in 0 .. MaxBuffer : ~odd(k)} :
                    LET printed == params_snprint(n, entries, style)
                    IN  /\ DOMAIN printed.buf \subseteq 0 .. n - 1
                        /\ printed.len = Len(whole)
                        /\ n > Len(whole) => Text(printed.buf) = whole

\* The fields of a query: what is between the & signs.
QueryFields(text) ==
    LET cuts == {0, Len(text) + 1} \cup {i \in DOMAIN text : text[i] = "&"}
        from == {i \in 0 .. Len(text) - 1 : i \in cuts /\ i + 1 \notin cuts}
    IN  [k \in 1 .. Cardinality(from) |->
            LET first == CHOOSE i \in from : Cardinality({j \in from : j <= i}) = k
            IN  SubSeq(text, first + 1, Min({j \in cuts : j > first}) - 1)]

Proper(field) == field[1] # "=" /\ "=" \in ToSet(field)

\* A query gives the value of each name, values of one name joined by commas. It gives
\* nothing when it begins with &, and otherwise the parser returns just when every
\* field has a name and a =.
ParseMeans ==
    query # NULL =>
        LET fields == IF query # <<>> /\ query[1] = "&" THEN <<>> ELSE QueryFields(query)
            key(f) == SubSeq(f, 1, Min({i \in DOMAIN f : f[i] = "="}) - 1)
            rest(f) == {i \in DOMAIN f : i > Len(key(f)) /\ f[i] # "="}
            value(f) == IF rest(f) = {} THEN <<>> ELSE SubSeq(f, Min(rest(f)), Len(f))
            said(name) == FlattenSeq([i \in DOMAIN fields |->
                              IF Fold(key(fields[i])) = name THEN <<",">> \o value(fields[i]) ELSE <<>>])
        IN  IF \E i \in DOMAIN fields : ~Proper(fields[i]) THEN stuck
            ELSE /\ ~stuck
                 /\ \A f \in ToSet(fields) : params_get(mem, src, key(f)) = Tail(said(Fold(key(f))))
                 /\ Len(Entries(mem, src)) = Cardinality({Fold(key(f)) : f \in ToSet(fields)})
=============================================================================
