--------------------------- MODULE OggStdinProofs ---------------------------
(***************************************************************************)
(* Proofs about OggStdin, for any number of links, streams, headers,       *)
(* descriptors and clients: what in_headers counts and the file holds at   *)
(* every point of oggstdin_read_page (Cached), what a client that has      *)
(* passed its wait will be sent (Ready), how the signal ends the thread    *)
(* (Stopping), and what the ring buffer holds for a client that has gone   *)
(* live (Served). No access is locked: each part says what it relies on    *)
(* between any two steps of the other side.                                *)
(***************************************************************************)
EXTENDS OggStdin, FiniteSetTheorems, SequenceTheorems, TLAPS

WriterPoint == {"next", "reset", "count", "store", "leave", "ringhead", "ringbody", "return",
                "closed"}
ClientPoint == {"new", "wait", "load", "send", "open", "mark", "place", "test", "live", "avail",
                "write1", "write2", "close", "unmark", "done"}
Opening == {"open", "mark", "place"}
Page == Link \X Nat

SourceType ==
  [link : Link, left : [Serial -> Int], pages : Seq(Page), lost : Nat,
   open : BOOLEAN, empty : Nat, data : Nat]
Local(l) == [rd |-> l.rd, len |-> l.len, got |-> l.got,
             seen |-> l.seen, todo |-> l.todo, split |-> l.split]
PageType == [link : Link, serial : Serial, bos : BOOLEAN, packets : Nat]

Types ==
  /\ source \in SourceType
  /\ page \in PageType
  /\ wpc \in WriterPoint
  /\ headers_len \in Nat
  /\ tracker \in [Link \X Serial -> Nat]
  /\ file \in Seq(Page)
  /\ pc \in [Client -> ClientPoint]
  /\ loc = [c \in Client |-> Local(loc[c])]

(* The input: a stream of the link has brought some of its headers, and no other is
   there before the first page. *)
Input ==
  /\ \A s \in Serial : source.left[s] = Absent \/ source.left[s] \in Nat
  /\ source.link > 0 => source.pages # <<>>
  /\ source.link = 0 => source.pages = <<>> /\ ~source.open /\ \A s \in Serial : source.left[s] = Absent
  /\ source.lost <= Len(source.pages)

Missing == {s \in Serial : source.left[s] > 0}

(* The page in hand: its link is the input's, its packets are not counted yet. *)
Uncounted == wpc \in {"reset", "count", "store"}
InHand ==
  wpc \in {"reset", "count", "store", "leave"} =>
    /\ source.link > 0 /\ page.link = source.link
    /\ source.left[page.serial] # Absent
    /\ source.pages # <<>>
    /\ wpc = "reset" => source.lost = Len(source.pages) - 1
    /\ wpc = "leave" => source.left[page.serial] = 0
Packets(s) == IF Uncounted /\ s = page.serial THEN page.packets ELSE 0

(* The streams that in_headers counts, at each point of oggstdin_read_page. *)
Counted ==
  IF wpc \in {"reset", "count"} THEN Missing \ {page.serial}
  ELSE IF wpc \in {"store", "leave"} THEN Missing \cup {page.serial}
  ELSE Missing

(* The header pages that the file should hold by now. *)
Kept == IF Uncounted THEN Len(source.pages) - 1 ELSE Len(source.pages)

Cached ==
  /\ \A s \in Serial : source.left[s] # Absent =>
        tracker[<<source.link, s>>] + Packets(s) + source.left[s] = NumHeaders[source.link][s]
  /\ \A l \in Link, s \in Serial :
        l > source.link \/ (l = source.link /\ source.left[s] = Absent) => tracker[<<l, s>>] = 0
  /\ in_headers = Cardinality(Counted)
  /\ headers_len <= Len(file)
  /\ wpc # "reset" => /\ headers_len = Kept - source.lost
                      /\ \A i \in 1 .. headers_len : file[i] = source.pages[source.lost + i]
CacheInv == Types /\ Input /\ InHand /\ Cached

(* No headers are being collected: what is cached is what a client needs. *)
Settled == Missing = {} /\ wpc \notin {"reset", "count", "store", "leave"}

(* A client behind its wait is sent the complete headers, or has a cause not to be. *)
Ready ==
  /\ headless \subseteq excused
  /\ \A c \in Client : pc[c] \in {"load", "send"} \cup Opening =>
        \/ c \in excused
        \/ source.lost > 0
        \/ /\ Settled
           /\ pc[c] = "send" => loc[c].len = headers_len
           /\ pc[c] \in Opening => loc[c].got = source.pages

(* The flag of the signal's handler, while no client without descriptor moves it. *)
Stopping ==
  shifted \/ /\ IF handler = "idle" THEN active = 1 /\ late = 0 ELSE active = 0
             /\ late \in {0, 1}
             /\ late = 1 => wpc # "next"

OggInv == CacheInv /\ Ready /\ Stopping
-----------------------------------------------------------------------------
(* The streams with headers yet to come, as the input gives them. *)
LEMMA MissingFinite ==
  IsFiniteSet(Missing) /\ Cardinality(Missing) \in Nat /\ (Cardinality(Missing) = 0 <=> Missing = {})
BY HeadersAssumption, FS_Subset, FS_CardinalityType, FS_EmptySet DEF Missing

LEMMA CollectingMissing == ASSUME Types PROVE Collecting(source) <=> Missing # {}
BY DEF Collecting, Missing

LEMMA NumHeadersType ==
  ASSUME NEW l \in Link, l > 0, NEW s \in Serial PROVE NumHeaders[l][s] \in Nat \ {0}
BY HeadersAssumption, BoundsAssumption DEF Link

(* The pages of the input are one longer. *)
LEMMA PagesGrow ==
  ASSUME NEW pages \in Seq(Page), NEW l \in Link
  PROVE  LET grown == Append(pages, <<l, Len(pages)>>)
         IN  /\ grown \in Seq(Page) /\ Len(grown) = Len(pages) + 1 /\ Len(pages) \in Nat /\ grown # <<>>
             /\ \A i \in 1 .. Len(pages) : grown[i] = pages[i]
BY AppendProperties DEF Page

(* What Store leaves of the file. *)
LEMMA FileGrows ==
  ASSUME NEW old \in Seq(Page), NEW len \in Nat, len <= Len(old), NEW p \in Page
  PROVE  LET new == SubSeq(old, 1, len) \o <<p>> \o SubSeq(old, len + 2, Len(old))
         IN  /\ new \in Seq(Page) /\ len + 1 <= Len(new) /\ new[len + 1] = p
             /\ \A i \in 1 .. len : new[i] = old[i]
<1>. DEFINE front == SubSeq(old, 1, len)
            back == SubSeq(old, len + 2, Len(old))
<1>1. /\ front \in Seq(Page) /\ Len(front) = len
      /\ \A i \in 1 .. len : front[i] = old[i]
  BY SubSeqProperties
<1>2. back \in Seq(Page) /\ Len(back) \in Nat
  BY SubSeqProperties
<1>. HIDE DEF front, back
<1>3. <<p>> \in Seq(Page) /\ Len(<<p>>) = 1 /\ <<p>>[1] = p
  OBVIOUS
<1>4. /\ front \o <<p>> \in Seq(Page) /\ Len(front \o <<p>>) = len + 1 /\ (front \o <<p>>)[len + 1] = p
      /\ \A i \in 1 .. len : (front \o <<p>>)[i] = old[i]
  BY <1>1, <1>3, ConcatProperties
<1>. DEFINE longer == front \o <<p>>
            new == longer \o back
<1>5. longer \in Seq(Page) /\ Len(longer) = len + 1 /\ longer[len + 1] = p
  BY <1>4
<1>6. \A i \in 1 .. len : longer[i] = old[i]
  BY <1>4
<1>. HIDE DEF longer
<1>7. /\ new \in Seq(Page) /\ Len(new) = Len(longer) + Len(back)
      /\ \A i \in 1 .. Len(longer) + Len(back) :
            new[i] = IF i <= Len(longer) THEN longer[i] ELSE back[i - Len(longer)]
  BY <1>2, <1>5, ConcatProperties
<1>. HIDE DEF new
<1>8. /\ new \in Seq(Page) /\ len + 1 <= Len(new) /\ new[len + 1] = p
      /\ \A i \in 1 .. len : new[i] = old[i]
  BY <1>2, <1>5, <1>6, <1>7
<1>. QED BY <1>8 DEF new, longer, front, back
-----------------------------------------------------------------------------
(* Between two pages in_headers is the number of streams with headers yet to come. *)
LEMMA BetweenPages ==
  ASSUME CacheInv, wpc = "next"
  PROVE  /\ in_headers = Cardinality(Missing) /\ (in_headers = 0 <=> Missing = {})
         /\ (Collecting(source) <=> Missing # {})
         /\ \A s \in Serial : source.left[s] # Absent =>
               tracker[<<source.link, s>>] + source.left[s] = NumHeaders[source.link][s]
         /\ headers_len = Len(source.pages) - source.lost
         /\ \A i \in 1 .. headers_len : file[i] = source.pages[source.lost + i]
<1>1. in_headers = Cardinality(Missing)
  BY DEF CacheInv, Cached, Counted
<1>2. \A s \in Serial : Packets(s) = 0
  BY DEF Packets, Uncounted
<1>3. Kept = Len(source.pages)
  BY DEF Kept, Uncounted
<1>4. \A s \in Serial : source.left[s] # Absent =>
               tracker[<<source.link, s>>] + source.left[s] = NumHeaders[source.link][s]
  <2>. SUFFICES ASSUME NEW s \in Serial, source.left[s] # Absent
                PROVE  tracker[<<source.link, s>>] + source.left[s] = NumHeaders[source.link][s]
    OBVIOUS
  <2>1. tracker[<<source.link, s>>] + 0 + source.left[s] = NumHeaders[source.link][s]
    BY <1>2 DEF CacheInv, Cached
  <2>2. tracker[<<source.link, s>>] \in Nat /\ source.left[s] \in Int
    BY DEF CacheInv, Types, SourceType
  <2>. QED BY <2>1, <2>2
<1>. QED BY <1>1, <1>3, <1>4, MissingFinite, CollectingMissing DEF CacheInv, Cached

LEMMA BosStep ==
  ASSUME CacheInv, wpc = "next", NEW s \in Serial, BosPage(s),
         wpc' = (IF in_headers = 0 THEN "reset" ELSE "count"),
         UNCHANGED <<headerVars, clientVars>>
  PROVE  CacheInv'
<1>1. Types /\ Input /\ source \in SourceType /\ source.pages \in Seq(Page) /\ source.link \in Link
      /\ source.left \in [Serial -> Int] /\ source.lost \in Nat /\ Len(source.pages) \in Nat
  BY DEF CacheInv, Types, SourceType
<1>2. /\ wpc' = (IF Missing = {} THEN "reset" ELSE "count") /\ page'.serial = s /\ page'.packets = 1
      /\ UNCHANGED <<in_headers, headers_len, tracker, file, pc, loc>>
  BY BetweenPages DEF BosPage, headerVars, clientVars, CacheInv, Types, SourceType
<1>3. CASE /\ source.open
           /\ source.left[s] = Absent
           /\ source' = [source EXCEPT !.left[s] = NumHeaders[source.link][s] - 1,
                                   !.pages = Append(@, <<source.link, Len(@)>>),
                                   !.lost = IF Collecting(source) THEN @ ELSE Len(source.pages)]
           /\ page' = [link |-> source.link, serial |-> s, bos |-> TRUE, packets |-> 1]
  <2>1. source.link > 0 /\ NumHeaders[source.link][s] \in Nat \ {0}
    BY <1>1, <1>3, NumHeadersType DEF Input, Link
  <2>2. /\ source'.link = source.link /\ page'.link = source.link
        /\ source'.left = [source.left EXCEPT ![s] = NumHeaders[source.link][s] - 1]
        /\ source'.pages = Append(source.pages, <<source.link, Len(source.pages)>>)
        /\ source'.lost = IF Missing # {} THEN source.lost ELSE Len(source.pages)
    BY <1>1, <1>3, CollectingMissing DEF SourceType
  <2>3. /\ source'.pages \in Seq(Page) /\ Len(source'.pages) = Len(source.pages) + 1 /\ source'.pages # <<>>
        /\ \A i \in 1 .. Len(source.pages) : source'.pages[i] = source.pages[i]
    BY <1>1, <2>2, PagesGrow
  <2>4. source'.left \in [Serial -> Int] /\ source'.left[s] = NumHeaders[source.link][s] - 1
        /\ \A q \in Serial \ {s} : source'.left[q] = source.left[q]
    BY <1>1, <2>1, <2>2
  <2>5. source' \in SourceType /\ page' \in PageType
    <3>1. source'.open \in BOOLEAN /\ source'.empty \in Nat /\ source'.data \in Nat
      BY <1>1, <1>3 DEF SourceType
    <3>2. source'.lost \in Nat
      BY <1>1, <2>2
    <3>3. DOMAIN source' = DOMAIN source
      BY <1>3
    <3>. QED BY <1>1, <1>3, <2>2, <2>3, <2>4, <3>1, <3>2, <3>3 DEF SourceType, PageType
  <2>6. Types'
    BY <2>5 DEF CacheInv, Types, WriterPoint, headerVars, clientVars
  <2>7. Input'
    BY <1>1, <2>1, <2>2, <2>3, <2>4 DEF Input
  <2>8. Missing' \ {s} = Missing
    BY <1>3, <2>4 DEF Missing, Absent
  <2>9. InHand'
    BY <1>1, <1>2, <2>1, <2>2, <2>3, <2>4, BetweenPages DEF InHand, Absent
  <2>10. \A q \in Serial : source'.left[q] # Absent =>
           tracker[<<source'.link, q>>] + Packets(q)' + source'.left[q] = NumHeaders[source'.link][q]
    <3>1. Packets(s)' = 1 /\ \A q \in Serial \ {s} : Packets(q)' = 0
      BY <1>2 DEF Packets, Uncounted
    <3>2. tracker[<<source'.link, s>>] = 0
      BY <1>1, <1>3, <2>2 DEF CacheInv, Cached, Link
    <3>3. tracker[<<source'.link, s>>] + Packets(s)' + source'.left[s] = NumHeaders[source'.link][s]
      BY <2>1, <2>2, <2>4, <3>1, <3>2
    <3>4. ASSUME NEW q \in Serial \ {s}, source'.left[q] # Absent
          PROVE  tracker[<<source'.link, q>>] + Packets(q)' + source'.left[q] = NumHeaders[source'.link][q]
      <4>1. tracker[<<source.link, q>>] + source.left[q] = NumHeaders[source.link][q]
        BY <2>4, <3>4, BetweenPages
      <4>2. tracker[<<source.link, q>>] \in Nat
        BY <1>1 DEF Types
      <4>. QED BY <1>1, <2>2, <2>4, <3>1, <4>1, <4>2
    <3>. QED BY <3>3, <3>4
  <2>11. \A l \in Link, q \in Serial :
           l > source'.link \/ (l = source'.link /\ source'.left[q] = Absent) => tracker[<<l, q>>] = 0
    BY <1>1, <2>1, <2>2, <2>4 DEF CacheInv, Cached, Absent, Link
  <2>12. in_headers = Cardinality(Counted')
    BY <1>2, <2>8, BetweenPages DEF Counted
  <2>13. wpc' # "reset" => /\ headers_len = Kept' - source'.lost
                           /\ \A i \in 1 .. headers_len : file[i] = source'.pages[source'.lost + i]
    BY <1>1, <1>2, <2>2, <2>3, BetweenPages DEF Kept, Uncounted, CacheInv, Input
  <2>. QED BY <1>2, <2>6, <2>7, <2>9, <2>10, <2>11, <2>12, <2>13 DEF CacheInv, Cached
<1>4. CASE /\ ~ Collecting(source)
           /\ source.link < MaxLinks
           /\ source' = [source EXCEPT
                            !.link = @ + 1, !.open = TRUE, !.empty = 0,
                            !.left = [q \in Serial |-> IF q = s THEN NumHeaders[source.link + 1][s] - 1
                                                      ELSE Absent],
                            !.pages = <<<<source.link + 1, 0>>>>, !.lost = 0]
           /\ page' = [link |-> source.link + 1, serial |-> s, bos |-> TRUE, packets |-> 1]
  <2>1. /\ source.link + 1 \in Link /\ source.link + 1 > 0 /\ source.link \in Nat
        /\ NumHeaders[source.link + 1][s] \in Nat \ {0}
    BY <1>1, <1>4, NumHeadersType, BoundsAssumption DEF Link
  <2>2. /\ source'.link = source.link + 1 /\ page'.link = source.link + 1
        /\ source'.left = [q \in Serial |-> IF q = s THEN NumHeaders[source.link + 1][s] - 1 ELSE Absent]
        /\ source'.pages = <<<<source.link + 1, 0>>>>
        /\ source'.lost = 0
    BY <1>1, <1>4 DEF SourceType
  <2>3. source'.pages \in Seq(Page) /\ Len(source'.pages) = 1 /\ source'.pages # <<>>
    BY <2>1, <2>2 DEF Page
  <2>4. source'.left \in [Serial -> Int] /\ source'.left[s] = NumHeaders[source.link + 1][s] - 1
        /\ \A q \in Serial \ {s} : source'.left[q] = Absent
    BY <2>1, <2>2 DEF Absent
  <2>5. source' \in SourceType /\ page' \in PageType
    <3>1. source'.open \in BOOLEAN /\ source'.empty \in Nat /\ source'.data \in Nat
      BY <1>1, <1>4 DEF SourceType
    <3>2. DOMAIN source' = DOMAIN source
      BY <1>4
    <3>. QED BY <1>1, <1>4, <2>1, <2>2, <2>3, <2>4, <3>1, <3>2 DEF SourceType, PageType
  <2>6. Types'
    BY <2>5 DEF CacheInv, Types, WriterPoint, headerVars, clientVars
  <2>7. Input'
    BY <1>1, <2>1, <2>2, <2>3, <2>4 DEF Input
  <2>8. Missing = {} /\ Missing' \ {s} = Missing
    BY <1>1, <1>4, <2>4, CollectingMissing DEF Missing, Absent
  <2>9. InHand'
    BY <1>1, <1>2, <2>1, <2>2, <2>3, <2>4, <2>8 DEF InHand, Absent
  <2>10. \A q \in Serial : source'.left[q] # Absent =>
           tracker[<<source'.link, q>>] + Packets(q)' + source'.left[q] = NumHeaders[source'.link][q]
    <3>1. Packets(s)' = 1
      BY <1>2 DEF Packets, Uncounted
    <3>2. tracker[<<source'.link, s>>] = 0
      BY <1>1, <2>1, <2>2 DEF CacheInv, Cached
    <3>. QED BY <2>1, <2>2, <2>4, <3>1, <3>2
  <2>11. \A l \in Link, q \in Serial :
           l > source'.link \/ (l = source'.link /\ source'.left[q] = Absent) => tracker[<<l, q>>] = 0
    BY <1>1, <2>1, <2>2 DEF CacheInv, Cached, Link
  <2>12. in_headers = Cardinality(Counted')
    BY <1>2, <2>8, BetweenPages DEF Counted
  <2>13. wpc' = "reset"
    BY <1>2, <2>8
  <2>. QED BY <1>2, <2>6, <2>7, <2>9, <2>10, <2>11, <2>12, <2>13 DEF CacheInv, Cached
<1>. QED BY <1>3, <1>4 DEF BosPage

LEMMA HeaderStep ==
  ASSUME CacheInv, wpc = "next", NEW s \in Serial, HeaderPage(s),
         wpc' = (IF in_headers # 0 THEN "store" ELSE "ringhead"), UNCHANGED <<headerVars, clientVars>>
  PROVE  CacheInv' /\ Missing # {}
<1>1. Types /\ Input /\ source \in SourceType /\ source.pages \in Seq(Page) /\ source.link \in Link
      /\ source.left \in [Serial -> Int] /\ source.lost \in Nat /\ Len(source.pages) \in Nat
  BY DEF CacheInv, Types, SourceType
<1>2. s \in Missing /\ source.left[s] # Absent /\ source.link > 0
  BY <1>1 DEF HeaderPage, Missing, Absent, Input, Link
<1>3. /\ wpc' = "store"
      /\ UNCHANGED <<in_headers, headers_len, tracker, file, pc, loc>>
  BY <1>2, BetweenPages DEF headerVars, clientVars
<1>4. PICK packets \in 0 .. source.left[s] :
          /\ source' = [source EXCEPT !.left[s] = @ - packets, !.open = FALSE,
                                      !.empty = IF packets = 0 THEN @ + 1 ELSE @,
                                      !.pages = Append(@, <<source.link, Len(@)>>)]
          /\ page' = [link |-> source.link, serial |-> s, bos |-> FALSE, packets |-> packets]
  BY DEF HeaderPage
<1>5. packets \in Nat /\ source.left[s] - packets \in Nat
  BY <1>1
<1>6. /\ source'.link = source.link /\ page'.link = source.link /\ page'.serial = s /\ page'.packets = packets
      /\ source'.left = [source.left EXCEPT ![s] = @ - packets]
      /\ source'.pages = Append(source.pages, <<source.link, Len(source.pages)>>)
      /\ source'.lost = source.lost
  BY <1>1, <1>4 DEF SourceType
<1>7. /\ source'.pages \in Seq(Page) /\ Len(source'.pages) = Len(source.pages) + 1 /\ source'.pages # <<>>
      /\ \A i \in 1 .. Len(source.pages) : source'.pages[i] = source.pages[i]
  <2>1. LET grown == Append(source.pages, <<source.link, Len(source.pages)>>)
        IN  /\ grown \in Seq(Page) /\ Len(grown) = Len(source.pages) + 1 /\ grown # <<>>
            /\ \A i \in 1 .. Len(source.pages) : grown[i] = source.pages[i]
    BY <1>1, PagesGrow
  <2>. QED BY <1>6, <2>1
<1>8. /\ source'.left \in [Serial -> Int] /\ source'.left[s] = source.left[s] - packets
      /\ \A q \in Serial \ {s} : source'.left[q] = source.left[q]
  BY <1>1, <1>5, <1>6
<1>9. source' \in SourceType /\ page' \in PageType
  <2>1. source'.open \in BOOLEAN /\ source'.data \in Nat
    BY <1>1, <1>4 DEF SourceType
  <2>2. source'.empty \in Nat
    BY <1>1, <1>4 DEF SourceType
  <2>3. DOMAIN source' = DOMAIN source
    BY <1>4
  <2>. QED BY <1>1, <1>4, <1>5, <1>6, <1>7, <1>8, <2>1, <2>2, <2>3 DEF SourceType, PageType
<1>10. Types'
  BY <1>3, <1>9 DEF CacheInv, Types, WriterPoint
<1>11. Input'
  BY <1>1, <1>2, <1>5, <1>6, <1>7, <1>8 DEF Input
<1>12. InHand'
  BY <1>2, <1>3, <1>5, <1>6, <1>7, <1>8 DEF InHand, Absent
<1>13. \A q \in Serial : source'.left[q] # Absent =>
         tracker[<<source'.link, q>>] + Packets(q)' + source'.left[q] = NumHeaders[source'.link][q]
  <2>1. Packets(s)' = packets /\ \A q \in Serial \ {s} : Packets(q)' = 0
    BY <1>3, <1>6 DEF Packets, Uncounted
  <2>. SUFFICES ASSUME NEW q \in Serial, source'.left[q] # Absent
                PROVE  tracker[<<source.link, q>>] + Packets(q)' + source'.left[q] = NumHeaders[source.link][q]
    BY <1>6
  <2>2. tracker[<<source.link, q>>] \in Nat /\ source.left[q] \in Int
    BY <1>1 DEF Types
  <2>3. tracker[<<source.link, q>>] + source.left[q] = NumHeaders[source.link][q]
    BY <1>2, <1>8, BetweenPages
  <2>. QED BY <1>5, <1>8, <2>1, <2>2, <2>3
<1>14. \A l \in Link, q \in Serial :
         l > source'.link \/ (l = source'.link /\ source'.left[q] = Absent) => tracker[<<l, q>>] = 0
  BY <1>1, <1>5, <1>6, <1>8 DEF CacheInv, Cached, Absent, Link
<1>15. in_headers = Cardinality(Counted')
  <2>1. Missing' \cup {s} = Missing
    BY <1>2, <1>8 DEF Missing
  <2>. QED BY <1>3, <1>6, <2>1, BetweenPages DEF Counted
<1>16. /\ headers_len = Kept' - source'.lost
       /\ \A i \in 1 .. headers_len : file[i] = source'.pages[source'.lost + i]
  BY <1>1, <1>3, <1>6, <1>7, BetweenPages DEF Kept, Uncounted, CacheInv, Input
<1>. QED BY <1>2, <1>3, <1>10, <1>11, <1>12, <1>13, <1>14, <1>15, <1>16 DEF CacheInv, Cached

LEMMA DataStep ==
  ASSUME CacheInv, wpc = "next", NEW s \in Serial, DataPage(s),
         wpc' = (IF in_headers # 0 THEN "store" ELSE "ringhead"), UNCHANGED <<headerVars, clientVars>>
  PROVE  CacheInv' /\ wpc' = "ringhead"
<1>1. /\ wpc' = "ringhead"
      /\ UNCHANGED <<in_headers, headers_len, tracker, file, pc, loc>>
  BY BetweenPages DEF DataPage, headerVars, clientVars
<1>2. /\ source'.link = source.link /\ source'.left = source.left /\ source'.pages = source.pages
      /\ source'.lost = source.lost /\ source'.open = FALSE
      /\ source' \in SourceType /\ page' \in PageType
  <2>1. source \in SourceType /\ source.left[s] = 0
    BY DEF CacheInv, Types, DataPage
  <2>2. /\ source' = [source EXCEPT !.data = @ + 1, !.open = FALSE]
        /\ page' = [link |-> source.link, serial |-> s, bos |-> FALSE, packets |-> 1]
    BY DEF DataPage
  <2>3. page' \in PageType
    BY <2>1, <2>2 DEF SourceType, PageType
  <2>4. source'.data \in Nat
    BY <2>1, <2>2 DEF SourceType
  <2>. QED BY <2>1, <2>2, <2>3, <2>4 DEF SourceType
<1>3. Types'
  BY <1>1, <1>2 DEF CacheInv, Types, WriterPoint
<1>4. Input' /\ InHand'
  BY <1>1, <1>2 DEF CacheInv, Input, InHand
<1>5. Missing' = Missing
  BY <1>2 DEF Missing
<1>6. Cached'
  BY <1>1, <1>2, <1>5 DEF CacheInv, Cached, Counted, Kept, Packets, Uncounted
<1>. QED BY <1>1, <1>3, <1>4, <1>6 DEF CacheInv

LEMMA ArriveStep == ASSUME CacheInv, NEW s \in Serial, Arrive(s) PROVE CacheInv'
<1>1. UNCHANGED <<headerVars, clientVars>> /\ wpc = "next"
  BY DEF Arrive
<1>2. CASE BosPage(s)
  <2>1. page'.bos
    BY <1>2 DEF BosPage
  <2>. QED BY <1>1, <1>2, <2>1, BosStep DEF Arrive
<1>3. CASE HeaderPage(s)
  <2>1. ~page'.bos
    BY <1>3 DEF HeaderPage
  <2>. QED BY <1>1, <1>3, <2>1, HeaderStep DEF Arrive
<1>4. CASE DataPage(s)
  <2>1. ~page'.bos
    BY <1>4 DEF DataPage
  <2>. QED BY <1>1, <1>4, <2>1, DataStep DEF Arrive
<1>. QED BY <1>2, <1>3, <1>4 DEF Arrive
-----------------------------------------------------------------------------
(* The rest of oggstdin_read_page. *)
LEMMA ResetStep == ASSUME CacheInv, Reset PROVE CacheInv'
<1>. USE DEF CacheInv, Reset, sourceVars, ringVars, stopVars, clientVars, historyVars
<1>1. Types'
  BY DEF Types, WriterPoint
<1>2. Input' /\ InHand' /\ Missing' = Missing
  BY DEF Input, InHand, Missing
<1>3. \A s \in Serial : Packets(s)' = Packets(s)
  BY DEF Packets, Uncounted
<1>4. Counted' = Counted
  BY <1>2 DEF Counted
<1>5. Kept' = source.lost
  BY DEF Kept, Uncounted, InHand, Types, SourceType
<1>6. source.lost \in Nat /\ Len(file) \in Nat
  BY DEF Types, SourceType
<1>. QED BY <1>1, <1>2, <1>3, <1>4, <1>5, <1>6 DEF Cached

LEMMA CountStep == ASSUME CacheInv, Count PROVE CacheInv'
<1>. USE DEF CacheInv, Count, sourceVars, ringVars, stopVars, clientVars, historyVars
<1>1. Types'
  BY DEF Types, WriterPoint
<1>2. Input' /\ InHand' /\ Missing' = Missing
  BY DEF Input, InHand, Missing
<1>3. (\A s \in Serial : Packets(s)' = Packets(s)) /\ Kept' = Kept
  BY DEF Packets, Uncounted, Kept
<1>4. in_headers' = Cardinality(Counted')
  <2>. DEFINE others == Missing \ {page.serial}
  <2>1. IsFiniteSet(others) /\ in_headers = Cardinality(others)
    BY MissingFinite, FS_RemoveElement DEF Cached, Counted
  <2>2. Counted' = others \cup {page.serial}
    BY <1>2 DEF Counted
  <2>3. page.serial \notin others
    OBVIOUS
  <2>. HIDE DEF others
  <2>4. Cardinality(others \cup {page.serial}) = Cardinality(others) + 1
    BY <2>1, <2>3, FS_AddElement
  <2>. QED BY <2>1, <2>2, <2>4
<1>. QED BY <1>1, <1>2, <1>3, <1>4 DEF Cached

LEMMA StoreStep == ASSUME CacheInv, Store PROVE CacheInv'
<1>. USE DEF CacheInv, sourceVars, ringVars, stopVars, clientVars, historyVars
<1>. DEFINE s == page.serial
            n == Len(source.pages)
<1>1. /\ s \in Serial /\ page.packets \in Nat /\ source.left[s] \in Int /\ source.link \in Link /\ source.link > 0
      /\ source.pages \in Seq(Page) /\ n \in Nat \ {0} /\ source.pages[n] \in Page /\ source.lost \in Nat
      /\ source.left[s] \in Nat /\ page.link = source.link
  BY DEF Types, SourceType, PageType, InHand, Input, Store
<1>2. /\ tracker' = [tracker EXCEPT ![<<source.link, s>>] = @ + page.packets]
      /\ headers_len' = headers_len + 1
      /\ UNCHANGED <<source, page, in_headers, pc, loc>>
  BY <1>1 DEF Store, Stream
<1>3. /\ tracker' \in [Link \X Serial -> Nat]
      /\ tracker'[<<source.link, s>>] = tracker[<<source.link, s>>] + page.packets
      /\ \A l \in Link, q \in Serial : l # source.link \/ q # s => tracker'[<<l, q>>] = tracker[<<l, q>>]
  BY <1>1, <1>2 DEF Types
<1>4. tracker'[<<source.link, s>>] + source.left[s] = NumHeaders[source.link][s]
  <2>1. source.left[s] # Absent /\ Packets(s) = page.packets
    BY <1>1 DEF Packets, Uncounted, Store, Absent
  <2>2. tracker[<<source.link, s>>] + page.packets + source.left[s] = NumHeaders[source.link][s]
    BY <1>1, <2>1 DEF Cached
  <2>. QED BY <1>3, <2>2
<1>5. wpc' = IF source.left[s] = 0 THEN "leave" ELSE "return"
  <2>1. tracker'[<<source.link, s>>] \in Nat /\ NumHeaders[source.link][s] \in Nat
    BY <1>1, <1>3, NumHeadersType
  <2>2. wpc' = IF tracker'[<<source.link, s>>] >= NumHeaders[source.link][s] THEN "leave" ELSE "return"
    BY <1>1 DEF Store, Stream
  <2>. HIDE DEF s
  <2>. QED BY <1>1, <1>4, <2>1, <2>2
<1>6. /\ file' \in Seq(Page) /\ headers_len + 1 <= Len(file') /\ file'[headers_len + 1] = source.pages[n]
      /\ \A i \in 1 .. headers_len : file'[i] = file[i]
  <2>1. file \in Seq(Page) /\ headers_len \in Nat /\ headers_len <= Len(file)
    BY DEF Types, Cached
  <2>2. LET new == SubSeq(file, 1, headers_len) \o <<source.pages[n]>> \o SubSeq(file, headers_len + 2, Len(file))
        IN  /\ new \in Seq(Page) /\ headers_len + 1 <= Len(new) /\ new[headers_len + 1] = source.pages[n]
            /\ \A i \in 1 .. headers_len : new[i] = file[i]
    BY <1>1, <2>1, FileGrows
  <2>. QED BY <2>2 DEF Store
<1>7. Types'
  BY <1>2, <1>3, <1>5, <1>6 DEF Types, WriterPoint
<1>8. Input' /\ InHand' /\ Missing' = Missing
  BY <1>1, <1>2, <1>5 DEF Input, InHand, Missing, Store
<1>9. in_headers' = Cardinality(Counted')
  <2>1. Counted' = Counted
    <3>1. Counted = Missing \cup {s}
      BY DEF Counted, Store
    <3>2. CASE source.left[s] = 0
      <4>1. Counted' = Missing' \cup {s}
        BY <1>2, <1>5, <3>2 DEF Counted
      <4>. QED BY <1>8, <3>1, <4>1
    <3>3. CASE source.left[s] # 0
      <4>1. Counted' = Missing'
        BY <1>5, <3>3 DEF Counted
      <4>2. s \in Missing
        BY <1>1, <3>3 DEF Missing
      <4>. QED BY <1>8, <3>1, <4>1, <4>2
    <3>. QED BY <3>2, <3>3
  <2>. QED BY <1>2, <2>1 DEF Cached
<1>10. \A q \in Serial : source'.left[q] # Absent =>
         tracker'[<<source'.link, q>>] + Packets(q)' + source'.left[q] = NumHeaders[source'.link][q]
  <2>1. \A q \in Serial : Packets(q)' = 0
    BY <1>5 DEF Packets, Uncounted
  <2>2. \A q \in Serial \ {s} : Packets(q) = 0
    BY DEF Packets
  <2>3. ASSUME NEW q \in Serial, source.left[q] # Absent
        PROVE  tracker'[<<source.link, q>>] + 0 + source.left[q] = NumHeaders[source.link][q]
    <3>1. CASE q = s
      BY <1>1, <1>3, <1>4, <3>1
    <3>2. CASE q # s
      BY <1>1, <1>3, <2>2, <2>3, <3>2 DEF Cached
    <3>. QED BY <3>1, <3>2
  <2>. QED BY <1>2, <2>1, <2>3
<1>11. \A l \in Link, q \in Serial :
         l > source'.link \/ (l = source'.link /\ source'.left[q] = Absent) => tracker'[<<l, q>>] = 0
  BY <1>1, <1>2, <1>3 DEF Cached, InHand, Store, Link
<1>12. /\ headers_len' = Kept' - source'.lost
       /\ \A i \in 1 .. headers_len' : file'[i] = source'.pages[source'.lost + i]
  <2>1. headers_len = n - 1 - source.lost /\ Kept' = n
    BY <1>1, <1>2, <1>5 DEF Cached, Kept, Uncounted, Store
  <2>2. \A i \in 1 .. headers_len : file[i] = source.pages[source.lost + i]
    BY DEF Cached, Store
  <2>3. headers_len \in Nat
    BY DEF Types
  <2>. HIDE DEF n
  <2>4. ASSUME NEW i \in 1 .. headers_len + 1 PROVE file'[i] = source.pages[source.lost + i]
    <3>1. CASE i = headers_len + 1
      <4>1. source.lost + i = n
        BY <1>1, <2>1, <2>3, <3>1
      <4>2. file'[i] = source.pages[n]
        BY <1>6, <3>1
      <4>. QED BY <4>1, <4>2
    <3>2. CASE i # headers_len + 1
      BY <1>6, <2>2, <2>3, <3>2
    <3>. QED BY <3>1, <3>2
  <2>. QED BY <1>1, <1>2, <2>1, <2>3, <2>4
<1>. QED BY <1>2, <1>5, <1>6, <1>7, <1>8, <1>9, <1>10, <1>11, <1>12 DEF Cached

LEMMA LeaveStep == ASSUME CacheInv, Leave PROVE CacheInv'
<1>. USE DEF CacheInv, Leave, sourceVars, ringVars, stopVars, clientVars, historyVars
<1>1. Types'
  BY DEF Types, WriterPoint
<1>2. Input' /\ InHand' /\ Missing' = Missing
  BY DEF Input, InHand, Missing
<1>3. (\A s \in Serial : Packets(s)' = Packets(s)) /\ Kept' = Kept
  BY DEF Packets, Uncounted, Kept
<1>4. in_headers' = Cardinality(Counted')
  <2>1. page.serial \notin Missing
    BY DEF InHand, Missing
  <2>2. in_headers = Cardinality(Missing \cup {page.serial})
    BY DEF Cached, Counted
  <2>3. Cardinality(Missing \cup {page.serial}) = Cardinality(Missing) + 1
    BY <2>1, MissingFinite, FS_AddElement
  <2>4. Counted' = Missing
    BY <1>2 DEF Counted
  <2>. QED BY <2>2, <2>3, <2>4, MissingFinite
<1>. QED BY <1>1, <1>2, <1>3, <1>4 DEF Cached

(* Steps that leave the cache and the input as they are. *)
LEMMA OtherSteps ==
  ASSUME CacheInv, UNCHANGED <<sourceVars, headerVars>>,
         \/ wpc' = wpc
         \/ wpc \in {"next", "ringhead", "ringbody", "return"} /\ wpc' \in {"next", "ringbody", "return", "closed"},
         pc' \in [Client -> ClientPoint], loc' = [c \in Client |-> Local(loc'[c])]
  PROVE  CacheInv'
<1>. USE DEF CacheInv, sourceVars, headerVars
<1>1. Types'
  BY DEF Types, WriterPoint
<1>2. Input' /\ InHand' /\ Missing' = Missing
  BY DEF Input, InHand, Missing
<1>3. (\A s \in Serial : Packets(s)' = Packets(s)) /\ Kept' = Kept /\ Counted' = Counted
  BY <1>2 DEF Packets, Uncounted, Kept, Counted
<1>. QED BY <1>1, <1>2, <1>3 DEF Cached

LEMMA WriterCache == ASSUME CacheInv, Writer PROVE CacheInv'
<1>1. ASSUME NEW s \in Serial, Arrive(s) PROVE CacheInv'
  BY <1>1, ArriveStep
<1>2. CASE EndOfInput
  BY <1>2, OtherSteps DEF EndOfInput, clientVars, CacheInv, Types
<1>3. CASE RingFill \/ RingStore
  BY <1>3, OtherSteps DEF RingFill, RingStore, clientVars, CacheInv, Types
<1>4. CASE Return
  BY <1>4, OtherSteps DEF Return, clientVars, CacheInv, Types
<1>. QED BY <1>1, <1>2, <1>3, <1>4, ResetStep, CountStep, StoreStep, LeaveStep DEF Writer

(* A client's locals are its own. *)
LEMMA LocalsSet ==
  ASSUME loc = [d \in Client |-> Local(loc[d])], NEW c \in Client, NEW v, v = Local(v),
         loc' = [loc EXCEPT ![c] = v]
  PROVE  /\ loc' = [d \in Client |-> Local(loc'[d])]
         /\ loc'[c] = v /\ \A d \in Client \ {c} : loc'[d] = loc[d]
OBVIOUS

(* One field of a client's locals is assigned. *)
LEMMA LocalFields ==
  ASSUME NEW l, l = Local(l), NEW x
  PROVE  /\ Local([l EXCEPT !.rd = x]) = [l EXCEPT !.rd = x]
         /\ Local([l EXCEPT !.len = x]) = [l EXCEPT !.len = x]
         /\ Local([l EXCEPT !.got = x]) = [l EXCEPT !.got = x]
         /\ Local([l EXCEPT !.seen = x]) = [l EXCEPT !.seen = x]
         /\ Local([l EXCEPT !.todo = x]) = [l EXCEPT !.todo = x]
         /\ Local([l EXCEPT !.split = x]) = [l EXCEPT !.split = x]
<1>1. Local([l EXCEPT !.rd = x]) = [l EXCEPT !.rd = x]
  BY DEF Local
<1>2. Local([l EXCEPT !.len = x]) = [l EXCEPT !.len = x]
  BY DEF Local
<1>3. Local([l EXCEPT !.got = x]) = [l EXCEPT !.got = x]
  BY DEF Local
<1>4. Local([l EXCEPT !.seen = x]) = [l EXCEPT !.seen = x]
  BY DEF Local
<1>5. Local([l EXCEPT !.todo = x]) = [l EXCEPT !.todo = x]
  BY DEF Local
<1>6. Local([l EXCEPT !.split = x]) = [l EXCEPT !.split = x]
  BY DEF Local
<1>. QED BY <1>1, <1>2, <1>3, <1>4, <1>5, <1>6

LEMMA LocalNew == Local(NoLocals) = NoLocals
BY DEF Local, NoLocals

(* What each step of a client's thread leaves in its locals. *)
LEMMA LocalsKept ==
  ASSUME Types, NEW c \in Client, Thread(c)
  PROVE  /\ loc' = [d \in Client |-> Local(loc'[d])]
         /\ \A d \in Client \ {c} : loc'[d] = loc[d] /\ pc'[d] = pc[d]
         /\ pc' \in [Client -> ClientPoint]
<1>. USE DEF Types
<1>0. loc[c] = Local(loc[c])
  OBVIOUS
<1>1. pc' \in [Client -> ClientPoint] /\ \A d \in Client \ {c} : pc'[d] = pc[d]
  <2>1. \E p \in ClientPoint : pc' = [pc EXCEPT ![c] = p]
    BY DEF Thread, Quiet, Opens, Connect, HeadersReady, LoadLength, Sendfile, TestActive, InputReady, Avail,
           WriteFails, CloseLoad, CloseStore, Scan, ScanFails, Mark, Place, GoLive, Write1, Write2, ClientPoint
  <2>. QED BY <2>1
<1>2. \/ loc' = loc
      \/ \E v : v = Local(v) /\ loc' = [loc EXCEPT ![c] = v]
  <2>1. CASE Connect(c) \/ HeadersReady(c) \/ TestActive(c) \/ InputReady(c)
    BY <2>1 DEF Connect, HeadersReady, TestActive, InputReady
  <2>2. CASE LoadLength(c)
    <3>1. loc' = [loc EXCEPT ![c] = [loc[c] EXCEPT !.len = headers_len]]
      BY <2>2 DEF LoadLength
    <3>. DEFINE v == [loc[c] EXCEPT !.len = headers_len]
    <3>2. v = Local(v)
      BY <1>0, LocalFields
    <3>. HIDE DEF v
    <3>3. loc' = [loc EXCEPT ![c] = v]
      BY <3>1 DEF v
    <3>. QED BY <3>2, <3>3
  <2>3. CASE Sendfile(c)
    <3>1. \/ \E got : loc' = [loc EXCEPT ![c] = [NoLocals EXCEPT !.got = got]]
          \/ loc' = [loc EXCEPT ![c] = NoLocals]
      BY <2>3 DEF Sendfile
    <3>2. ASSUME NEW got PROVE Local([NoLocals EXCEPT !.got = got]) = [NoLocals EXCEPT !.got = got]
      BY LocalNew, LocalFields
    <3>. QED BY <3>1, <3>2, LocalNew
  <2>4. CASE ScanFails(c) \/ Place(c)
    <3>1. loc' = [loc EXCEPT ![c] = [NoLocals EXCEPT !.rd = loc[c].rd]]
      BY <2>4 DEF ScanFails, Place, GoLive
    <3>. DEFINE v == [NoLocals EXCEPT !.rd = loc[c].rd]
    <3>2. v = Local(v)
      BY LocalNew, LocalFields
    <3>. HIDE DEF v
    <3>3. loc' = [loc EXCEPT ![c] = v]
      BY <3>1 DEF v
    <3>. QED BY <3>2, <3>3
  <2>5. CASE Scan(c)
    <3>1. PICK rd \in Lowest(rb.readers) : loc' = [loc EXCEPT ![c].rd = rd, ![c].seen = rb.readers]
      BY <2>5 DEF Scan
    <3>. DEFINE l == loc[c]
                v == [l EXCEPT !.rd = rd]
    <3>2. loc' = [loc EXCEPT ![c] = [v EXCEPT !.seen = rb.readers]]
      BY <3>1
    <3>3. v = Local(v)
      <4>1. l = Local(l)
        BY <1>0
      <4>. HIDE DEF l
      <4>. QED BY <4>1, LocalFields
    <3>. HIDE DEF v
    <3>4. Local([v EXCEPT !.seen = rb.readers]) = [v EXCEPT !.seen = rb.readers]
      BY <3>3, LocalFields
    <3>. DEFINE u == [v EXCEPT !.seen = rb.readers]
    <3>5. Local(u) = u /\ loc' = [loc EXCEPT ![c] = u]
      BY <3>2, <3>4
    <3>. HIDE DEF u
    <3>. QED BY <3>5
  <2>6. CASE Mark(c) \/ CloseLoad(c)
    <3>0. loc' = [loc EXCEPT ![c].seen = {}] \/ loc' = [loc EXCEPT ![c].seen = rb.readers]
      BY <2>6 DEF Mark, CloseLoad
    <3>1. PICK seen : loc' = [loc EXCEPT ![c] = [loc[c] EXCEPT !.seen = seen]]
      BY <3>0
    <3>. DEFINE v == [loc[c] EXCEPT !.seen = seen]
    <3>2. v = Local(v)
      BY <1>0, LocalFields
    <3>. HIDE DEF v
    <3>3. loc' = [loc EXCEPT ![c] = v]
      BY <3>1 DEF v
    <3>. QED BY <3>2, <3>3
  <2>7. CASE Avail(c) \/ WriteFails(c) \/ Write1(c) \/ Write2(c)
    <3>1. \E n, m : loc' \in {[loc EXCEPT ![c].todo = n], [loc EXCEPT ![c].todo = n, ![c].split = m]}
      <4>1. CASE Avail(c)
        BY <4>1 DEF Avail
      <4>2. CASE WriteFails(c)
        BY <4>2 DEF WriteFails
      <4>3. CASE Write1(c)
        BY <4>3 DEF Write1
      <4>4. CASE Write2(c)
        BY <4>4 DEF Write2
      <4>. QED BY <2>7, <4>1, <4>2, <4>3, <4>4
    <3>2. PICK n, m : loc' \in {[loc EXCEPT ![c].todo = n], [loc EXCEPT ![c].todo = n, ![c].split = m]}
      BY <3>1
    <3>. DEFINE v == [loc[c] EXCEPT !.todo = n]
    <3>3. loc' = [loc EXCEPT ![c] = v] \/ loc' = [loc EXCEPT ![c] = [v EXCEPT !.split = m]]
      BY <3>2
    <3>4. v = Local(v)
      BY <1>0, LocalFields
    <3>. HIDE DEF v
    <3>. DEFINE u == [v EXCEPT !.split = m]
    <3>5. Local(u) = u
      BY <3>4, LocalFields
    <3>6. loc' \in {[loc EXCEPT ![c] = v], [loc EXCEPT ![c] = u]}
      BY <3>3
    <3>. HIDE DEF u
    <3>. QED BY <3>4, <3>5, <3>6
  <2>8. CASE CloseStore(c)
    BY <2>8, LocalNew DEF CloseStore
  <2>. QED BY <2>1, <2>2, <2>3, <2>4, <2>5, <2>6, <2>7, <2>8 DEF Thread, Quiet, Opens
<1>3. CASE loc' = loc
  BY <1>1, <1>3
<1>4. ASSUME NEW v, v = Local(v), loc' = [loc EXCEPT ![c] = v]
      PROVE  /\ loc' = [d \in Client |-> Local(loc'[d])]
             /\ \A d \in Client \ {c} : loc'[d] = loc[d]
  BY <1>4, LocalsSet
<1>. QED BY <1>1, <1>2, <1>3, <1>4

LEMMA ThreadCache == ASSUME CacheInv, NEW c \in Client, Thread(c) PROVE CacheInv'
<1>1. UNCHANGED <<sourceVars, headerVars>> /\ wpc' = wpc
  BY DEF Thread
<1>2. pc' \in [Client -> ClientPoint] /\ loc' = [d \in Client |-> Local(loc'[d])]
  BY LocalsKept DEF CacheInv
<1>. QED BY <1>1, <1>2, OtherSteps
-----------------------------------------------------------------------------
(* Clients in front of the ring buffer. *)
LEMMA SettledCache ==
  ASSUME CacheInv, Settled, source.lost = 0
  PROVE  SubSeq(file, 1, headers_len) = source.pages /\ ~Collecting(source)
<1>. USE DEF CacheInv
<1>1. headers_len = Len(source.pages) /\ headers_len \in Nat /\ headers_len <= Len(file)
      /\ file \in Seq(Page) /\ source.pages \in Seq(Page)
  BY DEF Cached, Settled, Kept, Uncounted, Types, SourceType
<1>2. \A i \in 1 .. headers_len : file[i] = source.pages[i]
  <2>1. \A i \in 1 .. headers_len : file[i] = source.pages[0 + i]
    BY DEF Cached, Settled
  <2>. QED BY <1>1, <2>1
<1>3. /\ SubSeq(file, 1, headers_len) \in Seq(Page) /\ Len(SubSeq(file, 1, headers_len)) = headers_len
      /\ \A i \in 1 .. headers_len : SubSeq(file, 1, headers_len)[i] = file[i]
  BY <1>1, SubSeqProperties
<1>. DEFINE front == SubSeq(file, 1, headers_len)
<1>. HIDE DEF front
<1>4. front = source.pages
  BY <1>1, <1>2, <1>3 DEF front
<1>. QED BY <1>4, CollectingMissing DEF front, Settled

(* The writer may unsettle the headers only with a new link or after losing pages. *)
LEMMA WriterReady == ASSUME CacheInv, Ready, Writer PROVE Ready'
<1>. USE DEF CacheInv
<1>1. UNCHANGED <<pc, loc, headless>> /\ excused \subseteq excused'
  BY DEF Writer, Arrive, BosPage, HeaderPage, DataPage, EndOfInput, Reset, Count, Store, Leave,
         RingFill, RingStore, Return, clientVars, historyVars
<1>2. ASSUME NEW c \in Client, pc[c] \in {"load", "send"} \cup Opening
      PROVE  \/ c \in excused' \/ source'.lost > 0
             \/ /\ c \notin excused /\ ~(source.lost > 0) /\ Settled /\ Settled'
                /\ UNCHANGED <<headers_len, source.pages>>
  <2>1. CASE c \in excused
    BY <1>1, <2>1
  <2>2. CASE c \notin excused /\ (source.lost > 0 \/ Settled)
    <3>1. ASSUME NEW s \in Serial, Arrive(s), BosPage(s)
          PROVE  c \in excused' \/ source'.lost > 0
      <4>1. source.open => Len(source.pages) > 0
        <5>1. source.open => source.pages # <<>> /\ source.pages \in Seq(Page)
          BY DEF Input, Types, SourceType, Link
        <5>. QED BY <5>1
      <4>. QED BY <1>2, <2>2, <3>1, <4>1, CollectingMissing DEF BosPage, Settled, Types, SourceType, Opening
    <3>2. ASSUME NEW s \in Serial, Arrive(s), HeaderPage(s)
          PROVE  source'.lost > 0
      <4>1. source.lost > 0
        BY <2>2, <3>2 DEF Settled, HeaderPage, Missing
      <4>2. source'.lost = source.lost
        BY <3>2 DEF HeaderPage, Types, SourceType
      <4>. QED BY <4>1, <4>2
    <3>3. ASSUME NEW s \in Serial, Arrive(s), DataPage(s)
          PROVE  \/ source'.lost > 0
                 \/ /\ ~(source.lost > 0) /\ Settled /\ Settled'
                    /\ UNCHANGED <<headers_len, source.pages>>
      <4>1. source'.lost = source.lost /\ source'.pages = source.pages /\ source'.left = source.left
            /\ UNCHANGED headers_len /\ wpc' = "ringhead"
        <5>1. wpc' = "ringhead"
          BY <3>3, DataStep DEF Arrive, DataPage
        <5>. QED BY <3>3, <5>1 DEF Arrive, DataPage, headerVars, Types, SourceType
      <4>. QED BY <2>2, <4>1 DEF Settled, Missing
    <3>4. CASE Reset \/ Count \/ Store \/ Leave
      BY <2>2, <3>4 DEF Reset, Count, Store, Leave, Settled, sourceVars
    <3>5. CASE EndOfInput \/ RingFill \/ RingStore \/ Return
      BY <2>2, <3>5 DEF EndOfInput, RingFill, RingStore, Return, Settled, Missing, sourceVars, headerVars
    <3>. QED BY <2>2, <3>1, <3>2, <3>3, <3>4, <3>5 DEF Writer, Arrive
  <2>. QED BY <1>2, <2>1, <2>2 DEF Ready
<1>3. headless' \subseteq excused'
  BY <1>1 DEF Ready
<1>4. ASSUME NEW c \in Client, pc'[c] \in {"load", "send"} \cup Opening
      PROVE  \/ c \in excused'
             \/ source'.lost > 0
             \/ /\ Settled'
                /\ pc'[c] = "send" => loc'[c].len = headers_len'
                /\ pc'[c] \in Opening => loc'[c].got = source'.pages
  <2>1. pc[c] \in {"load", "send"} \cup Opening /\ pc'[c] = pc[c] /\ loc'[c] = loc[c]
    BY <1>1, <1>4
  <2>2. CASE c \in excused' \/ source'.lost > 0
    BY <2>2
  <2>3. CASE /\ c \notin excused /\ ~(source.lost > 0) /\ Settled /\ Settled'
             /\ UNCHANGED <<headers_len, source.pages>>
    BY <2>1, <2>3 DEF Ready
  <2>. QED BY <1>2, <2>1, <2>2, <2>3
<1>. QED BY <1>3, <1>4 DEF Ready

LEMMA ThreadReady == ASSUME CacheInv, Ready, NEW c \in Client, Thread(c) PROVE Ready'
<1>. USE DEF CacheInv, Types
<1>1. UNCHANGED <<source, wpc, headers_len, file>> /\ Settled' = Settled
  BY DEF Thread, sourceVars, headerVars, Settled, Missing
<1>2. ASSUME NEW d \in Client, d # c
      PROVE  pc'[d] = pc[d] /\ loc'[d] = loc[d] /\ (d \in excused => d \in excused')
  <2>1. pc'[d] = pc[d] /\ loc'[d] = loc[d]
    BY <1>2, LocalsKept
  <2>2. d \in excused => d \in excused'
    BY <1>2 DEF Thread, Quiet, Opens, Connect, HeadersReady, LoadLength, Sendfile, TestActive, InputReady,
                Avail, WriteFails, CloseLoad, CloseStore, Scan, ScanFails, Mark, Place, GoLive, Write1, Write2,
                historyVars
  <2>. QED BY <2>1, <2>2
<1>3. headless' \subseteq excused'
  <2>1. CASE ScanFails(c) \/ Place(c)
    BY <2>1, SettledCache DEF ScanFails, Place, GoLive, Ready, SourceType, Opening
  <2>2. CASE CloseStore(c)
    BY <2>2 DEF CloseStore, Ready
  <2>. QED BY <2>1, <2>2 DEF Thread, Quiet, Opens, Connect, HeadersReady, LoadLength, Sendfile, TestActive,
                InputReady, Avail, WriteFails, CloseLoad, Scan, Mark, Write1, Write2, historyVars, Ready
<1>4. pc'[c] \in {"load", "send"} \cup Opening =>
        \/ c \in excused'
        \/ source.lost > 0
        \/ /\ Settled
           /\ pc'[c] = "send" => loc'[c].len = headers_len
           /\ pc'[c] \in Opening => loc'[c].got = source.pages
  <2>1. CASE HeadersReady(c)
    <3>1. ASSUME c \notin excused' PROVE Settled
      <4>1. in_headers = 0 /\ wpc \notin {"reset", "count"}
        BY <2>1, <3>1 DEF HeadersReady
      <4>2. wpc \notin {"store", "leave"}
        <5>1. SUFFICES ASSUME wpc \in {"store", "leave"} PROVE FALSE
          OBVIOUS
        <5>2. Cardinality(Missing \cup {page.serial}) = 0
          BY <4>1, <5>1 DEF Cached, Counted
        <5>3. CASE page.serial \in Missing
          <6>1. Missing \cup {page.serial} = Missing
            BY <5>3
          <6>. QED BY <5>2, <5>3, <6>1, MissingFinite
        <5>4. CASE page.serial \notin Missing
          <6>1. Cardinality(Missing \cup {page.serial}) = Cardinality(Missing) + 1
            BY <5>4, MissingFinite, FS_AddElement
          <6>. QED BY <5>2, <6>1, MissingFinite
        <5>. QED BY <5>3, <5>4
      <4>3. Missing = {}
        BY <4>1, <4>2, MissingFinite DEF Cached, Counted
      <4>. QED BY <4>1, <4>2, <4>3 DEF Settled
    <3>2. pc'[c] = "load"
      BY <2>1 DEF HeadersReady
    <3>. QED BY <3>1, <3>2 DEF Opening
  <2>2. CASE LoadLength(c)
    BY <2>2 DEF LoadLength, Ready, historyVars, Local, Opening
  <2>3. CASE Sendfile(c)
    <3>. SUFFICES ASSUME pc'[c] \in {"load", "send"} \cup Opening, c \notin excused', ~(source.lost > 0)
                  PROVE  Settled /\ pc'[c] = "open" /\ loc'[c].got = source.pages
      OBVIOUS
    <3>1. /\ loc' = [loc EXCEPT ![c] = [NoLocals EXCEPT !.got = SubSeq(file, 1, loc[c].len)]]
          /\ pc'[c] = "open" /\ pc[c] = "send" /\ excused' = excused
      BY <2>3 DEF Sendfile, historyVars, Opening
    <3>2. Settled /\ loc[c].len = headers_len
      BY <3>1 DEF Ready
    <3>3. source.lost = 0
      BY DEF SourceType
    <3>4. SubSeq(file, 1, headers_len) = source.pages
      BY <3>2, <3>3, SettledCache
    <3>5. loc'[c].got = SubSeq(file, 1, loc[c].len)
      BY <3>1 DEF NoLocals
    <3>. QED BY <3>1, <3>2, <3>4, <3>5
  <2>4. CASE Scan(c) \/ Mark(c)
    <3>1. pc[c] \in {"open", "mark"} /\ pc'[c] \in {"mark", "place"} /\ excused' = excused
      BY <2>4 DEF Scan, Mark, historyVars
    <3>2. loc'[c].got = loc[c].got
      <4>1. loc[c] = Local(loc[c])
        OBVIOUS
      <4>. QED BY <2>4, <4>1 DEF Scan, Mark, Local
    <3>. QED BY <3>1, <3>2 DEF Ready, Opening
  <2>5. CASE Connect(c) \/ TestActive(c) \/ InputReady(c) \/ Avail(c) \/ WriteFails(c) \/ CloseLoad(c)
    <3>1. pc'[c] \in {"wait", "live", "close", "avail", "test", "write1", "write2", "unmark"}
      BY <2>5 DEF Connect, TestActive, InputReady, Avail, WriteFails, CloseLoad
    <3>. QED BY <3>1 DEF Opening
  <2>6. CASE ScanFails(c) \/ Place(c) \/ CloseStore(c) \/ Write1(c) \/ Write2(c)
    <3>1. pc'[c] \in {"test", "done", "write2"}
      BY <2>6 DEF ScanFails, Place, GoLive, CloseStore, Write1, Write2
    <3>. QED BY <3>1 DEF Opening
  <2>. QED BY <2>1, <2>2, <2>3, <2>4, <2>5, <2>6 DEF Thread, Quiet, Opens
<1>. QED BY <1>1, <1>2, <1>3, <1>4 DEF Ready
-----------------------------------------------------------------------------
LEMMA InitOgg == ASSUME Init PROVE OggInv
<1>. USE DEF Init
<1>1. Types
  <2>1. source \in SourceType
    BY BoundsAssumption DEF SourceType, Link, Absent, Page
  <2>2. page \in PageType
    BY BoundsAssumption, HeadersAssumption DEF PageType, NoPage, Link
  <2>3. loc = [c \in Client |-> Local(loc[c])]
    BY DEF NoLocals, Local
  <2>. QED BY <2>1, <2>2, <2>3 DEF Types, WriterPoint, ClientPoint, Page
<1>2. Input /\ InHand
  BY DEF Input, InHand, Absent
<1>3. Missing = {}
  BY DEF Missing, Absent
<1>4. Cached
  BY <1>3, FS_EmptySet DEF Cached, Counted, Kept, Uncounted, Packets, Link, Absent
<1>5. Ready /\ Stopping
  BY DEF Ready, Stopping, Opening
<1>. QED BY <1>1, <1>2, <1>4, <1>5 DEF OggInv, CacheInv

LEMMA StoppingStep == ASSUME Stopping, [Next]_vars PROVE Stopping'
<1>. USE DEF Stopping
<1>1. CASE Writer
  BY <1>1 DEF Writer, Arrive, EndOfInput, Reset, Count, Store, Leave, RingFill, RingStore, Return, stopVars
<1>2. CASE Signal
  BY <1>2 DEF Signal
<1>3. CASE Joined
  BY <1>3 DEF Joined
<1>4. ASSUME NEW c \in Client, Thread(c) PROVE Stopping'
  BY <1>4 DEF Thread, Write1, Write2, Sent
<1>5. CASE UNCHANGED vars
  BY <1>5 DEF vars, stopVars
<1>. QED BY <1>1, <1>2, <1>3, <1>4, <1>5 DEF Next

LEMMA NextOgg == ASSUME OggInv, [Next]_vars PROVE OggInv'
<1>. USE DEF OggInv
<1>1. CASE Writer
  BY <1>1, WriterCache, WriterReady, StoppingStep
<1>2. ASSUME NEW c \in Client, Thread(c) PROVE OggInv'
  BY <1>2, ThreadCache, ThreadReady, StoppingStep
<1>3. CASE Signal \/ Joined \/ UNCHANGED vars
  <2>1. UNCHANGED <<sourceVars, wpc, headerVars, clientVars, historyVars>>
    BY <1>3 DEF Signal, Joined, vars
  <2>2. CacheInv'
    BY <2>1, OtherSteps DEF CacheInv, Types, clientVars
  <2>3. Ready'
    BY <2>1 DEF Ready, Settled, Missing, sourceVars, headerVars, clientVars, historyVars
  <2>. QED BY <2>2, <2>3, StoppingStep
<1>. QED BY <1>1, <1>2, <1>3 DEF Next

LEMMA OggInvariance == Spec => []OggInv
BY InitOgg, NextOgg, PTL DEF Spec

(* Between two calls of oggstdin_read_page (ogg-stdin.c:51) in_headers counts the
   streams of the link that have headers yet to come, and the file holds the headers
   that have come, for any streams, headers and cuts into pages. *)
THEOREM HeadersAlwaysTracked == Spec => []HeadersTracked
<1>1. ASSUME OggInv PROVE HeadersTracked
  <2>. SUFFICES ASSUME wpc = "next" PROVE HeadersTracked
    BY DEF HeadersTracked
  <2>0. CacheInv
    BY <1>1 DEF OggInv
  <2>1. /\ source.pages \in Seq(Page) /\ source.lost \in Nat /\ source.lost <= Len(source.pages)
        /\ file \in Seq(Page) /\ headers_len \in Nat /\ headers_len <= Len(file)
    BY <2>0 DEF CacheInv, Types, SourceType, Input, Cached
  <2>. DEFINE front == SubSeq(file, 1, headers_len)
              back == SubSeq(source.pages, source.lost + 1, Len(source.pages))
  <2>2. front \in Seq(Page) /\ Len(front) = headers_len /\ \A i \in 1 .. headers_len : front[i] = file[i]
    BY <2>1, SubSeqProperties
  <2>3. /\ back \in Seq(Page) /\ Len(back) = headers_len
        /\ \A i \in 1 .. headers_len : back[i] = source.pages[source.lost + i]
    <3>1. headers_len = Len(source.pages) - source.lost
      BY <2>0, BetweenPages
    <3>2. Len(source.pages) \in Nat
      BY <2>1
    <3>. DEFINE m == source.lost + 1
                n == Len(source.pages)
    <3>3. m \in 1 .. n + 1
      BY <2>1, <3>2
    <3>4. back \in Seq(Page) /\ Len(back) = (IF m <= n THEN n - m + 1 ELSE 0)
          /\ \A i \in 1 .. n - m + 1 : back[i] = source.pages[m + i - 1]
      BY <2>1, <3>2, <3>3, SubSeqProperties
    <3>5. n - m + 1 = headers_len /\ (IF m <= n THEN n - m + 1 ELSE 0) = headers_len
      BY <2>1, <3>1, <3>2
    <3>6. \A i \in 1 .. headers_len : source.pages[m + i - 1] = source.pages[source.lost + i]
      <4>1. ASSUME NEW i \in 1 .. headers_len PROVE m + i - 1 = source.lost + i
        BY <2>1
      <4>. QED BY <4>1
    <3>. HIDE DEF m, n, back
    <3>. QED BY <3>4, <3>5, <3>6
  <2>. HIDE DEF front, back
  <2>4. front = back
    <3>1. \A i \in 1 .. headers_len : front[i] = back[i]
      BY <2>0, <2>2, <2>3, BetweenPages
    <3>. QED BY <2>1, <2>2, <2>3, <3>1
  <2>5. \A s \in Missing : source.left[s] # Absent
    BY DEF Missing, Absent
  <2>. QED BY <2>0, <2>4, <2>5, BetweenPages DEF front, back, HeadersTracked, Missing
<1>2. OggInv => HeadersTracked
  BY <1>1
<1>. QED BY <1>2, OggInvariance, PTL

(* oggstdin_body (ogg-stdin.c:145): a client that goes live without the complete
   headers of the link has one of the three causes. *)
THEOREM HeadlessAlwaysHasCause == Spec => []HeadlessHasCause
<1>1. OggInv => HeadlessHasCause
  BY DEF OggInv, Ready, HeadlessHasCause
<1>. QED BY <1>1, OggInvariance, PTL

(* oggstdin_sighandler (ogg-stdin.c:117) joins a thread that reads one more page at
   most, unless a client without descriptor undoes the 0. *)
THEOREM AlwaysStopsAfterOnePage == Spec => []StopsAfterOnePage
<1>1. OggInv => StopsAfterOnePage
  BY DEF OggInv, Stopping, StopsAfterOnePage
<1>. QED BY <1>1, OggInvariance, PTL
-----------------------------------------------------------------------------
(* The clients at the ring buffer. How far position w is ahead of position p: *)
Ahead(p, w) == IF w - p < 0 THEN w - p + Size ELSE w - p

LEMMA WrapAbove == ASSUME NEW x \in Nat, Size <= x, x < 2 * Size PROVE x % Size = x - Size
  BY SizeAssumption

LEMMA Wrap ==
  ASSUME NEW x \in Nat, x < 2 * Size
  PROVE  x % Size = (IF x < Size THEN x ELSE x - Size) /\ x % Size \in Position
<1>1. CASE x < Size
  BY <1>1, SizeAssumption DEF Position
<1>2. CASE ~ (x < Size)
  <2>1. Size <= x
    BY <1>2, SizeAssumption
  <2>2. x % Size = x - Size
    BY <2>1, WrapAbove
  <2>. QED BY <1>2, <2>1, <2>2, SizeAssumption DEF Position
<1>. QED BY <1>1, <1>2

LEMMA WrapCell ==
  ASSUME NEW p \in Position, NEW i \in 0 .. Size
  PROVE  /\ (p + i) % Size = IF p + i < Size THEN p + i ELSE p + i - Size
         /\ (p + i) % Size \in Position
<1>1. p + i \in Nat /\ p + i < 2 * Size
  BY SizeAssumption DEF Position
<1>. QED BY <1>1, Wrap, SizeAssumption DEF Position

LEMMA AheadRange ==
  ASSUME NEW p \in Position, NEW w \in Position
  PROVE  Ahead(p, w) \in 0 .. Size - 1 /\ Ahead(w, w) = 0
  BY SizeAssumption DEF Ahead, Position

LEMMA AheadStored ==
  ASSUME NEW p \in Position, NEW w \in Position, NEW m \in Nat, Ahead(p, w) + m < Size
  PROVE  Ahead(p, (w + m) % Size) = Ahead(p, w) + m
<1>1. m \in 0 .. Size
  BY AheadRange, SizeAssumption
<1>. DEFINE v == (w + m) % Size
<1>2. v = IF w + m < Size THEN w + m ELSE w + m - Size
  BY <1>1, WrapCell
<1>. HIDE DEF v
<1>3. Ahead(p, v) = Ahead(p, w) + m
  BY <1>1, <1>2, SizeAssumption DEF Ahead, Position
<1>. QED BY <1>3 DEF v

LEMMA AheadSent ==
  ASSUME NEW p \in Position, NEW w \in Position, NEW n \in 0 .. Ahead(p, w)
  PROVE  (p + n) % Size \in Position /\ Ahead((p + n) % Size, w) = Ahead(p, w) - n
<1>1. n \in 0 .. Size
  BY AheadRange, SizeAssumption
<1>. DEFINE q == (p + n) % Size
<1>2. q \in Position /\ q = IF p + n < Size THEN p + n ELSE p + n - Size
  BY <1>1, WrapCell
<1>. HIDE DEF q
<1>3. Ahead(q, w) = Ahead(p, w) - n
  BY <1>1, <1>2, SizeAssumption DEF Ahead, Position
<1>. QED BY <1>2, <1>3 DEF q

(* The cells from p on: those before w are not w, and w is the next. *)
LEMMA CellsAhead ==
  ASSUME NEW p \in Position, NEW w \in Position
  PROVE  /\ (p + Ahead(p, w)) % Size = w
         /\ \A i \in 0 .. Ahead(p, w) - 1 : (p + i) % Size \in Position /\ (p + i) % Size # w
<1>1. Ahead(p, w) \in 0 .. Size
  BY AheadRange, SizeAssumption
<1>2. (p + Ahead(p, w)) % Size = w
  <2>. DEFINE a == Ahead(p, w)
  <2>1. (p + a) % Size = IF p + a < Size THEN p + a ELSE p + a - Size
    BY <1>1, WrapCell
  <2>2. (IF p + a < Size THEN p + a ELSE p + a - Size) = w
    BY SizeAssumption DEF Ahead, Position
  <2>. QED BY <2>1, <2>2
<1>3. ASSUME NEW i \in 0 .. Ahead(p, w) - 1 PROVE (p + i) % Size \in Position /\ (p + i) % Size # w
  <2>1. i \in 0 .. Size
    BY <1>1, SizeAssumption
  <2>. DEFINE q == (p + i) % Size
  <2>2. q \in Position /\ q = IF p + i < Size THEN p + i ELSE p + i - Size
    BY <2>1, WrapCell
  <2>. HIDE DEF q
  <2>3. q # w
    BY <2>1, <2>2, SizeAssumption DEF Ahead, Position
  <2>. QED BY <2>2, <2>3 DEF q
<1>. QED BY <1>2, <1>3

(* m cells from w on are none of those before w, as long as they stay in front of p. *)
LEMMA CellsAway ==
  ASSUME NEW p \in Position, NEW w \in Position, NEW m \in Nat, Ahead(p, w) + m < Size,
         NEW i \in 0 .. Ahead(p, w) - 1
  PROVE  LET q == (p + i) % Size IN q \in Position /\ ~ (w <= q /\ q < w + m)
<1>1. i \in 0 .. Size /\ Ahead(p, w) \in 0 .. Size - 1
  BY AheadRange, SizeAssumption
<1>. DEFINE q == (p + i) % Size
<1>2. q \in Position /\ q = IF p + i < Size THEN p + i ELSE p + i - Size
  BY <1>1, WrapCell
<1>. HIDE DEF q
<1>3. ~ (w <= q /\ q < w + m)
  <2>1. CASE w - p < 0
    <3>1. w + m < p
      BY <1>1, <2>1, SizeAssumption DEF Ahead, Position
    <3>2. q >= p \/ q < w
      BY <1>1, <1>2, <2>1, SizeAssumption DEF Ahead, Position
    <3>. QED BY <1>2, <3>1, <3>2, SizeAssumption DEF Position
  <2>2. CASE ~ (w - p < 0)
    <3>1. q < w
      BY <1>1, <1>2, <2>2, SizeAssumption DEF Ahead, Position
    <3>. QED BY <1>2, <3>1, SizeAssumption DEF Position
  <2>. QED BY <2>1, <2>2
<1>. QED BY <1>2, <1>3 DEF q

LEMMA CellSent ==
  ASSUME NEW p \in Position, NEW n \in Nat, NEW i \in Nat, n + i < Size
  PROVE  (((p + n) % Size) + i) % Size = (p + (n + i)) % Size
<1>1. n \in 0 .. Size /\ i \in 0 .. Size /\ n + i \in 0 .. Size
  BY SizeAssumption
<1>. DEFINE q == (p + n) % Size
            j == n + i
<1>2. q \in Position /\ q = IF p + n < Size THEN p + n ELSE p + n - Size
  BY <1>1, WrapCell
<1>3. (p + j) % Size = IF p + j < Size THEN p + j ELSE p + j - Size
  BY <1>1, WrapCell
<1>. HIDE DEF q
<1>4. (q + i) % Size = IF q + i < Size THEN q + i ELSE q + i - Size
  BY <1>1, <1>2, WrapCell
<1>5. j = n + i
  OBVIOUS
<1>. HIDE DEF j
<1>6. (q + i) % Size = (p + j) % Size
  BY <1>1, <1>2, <1>3, <1>4, <1>5, SizeAssumption DEF Position
<1>. QED BY <1>6 DEF q, j
-----------------------------------------------------------------------------
Holding == {"mark", "place", "test", "live", "avail", "write1", "write2", "close", "unmark"}
Held    == Descriptor \cup {NoDescriptor}

RingTypes ==
  /\ rb \in ringbuffer
  /\ written \in Nat
  /\ active \in 0 .. Size
  /\ piece \in [filled : 0 .. MaxPiece, todo : 0 .. MaxPiece]
  /\ rpos \in [Client -> Nat]
  /\ \A c \in Client : /\ loc[c].rd \in Held
                       /\ loc[c].seen \in SUBSET Held
                       /\ loc[c].todo \in 0 .. Size
                       /\ loc[c].split \in 0 .. Size
                       /\ pc[c] = "write1" => loc[c].split <= loc[c].todo
                       /\ rpos[c] <= written
  /\ headless \cup excused \cup damaged \cup lapped \cup shared \subseteq Client

(* A client has a descriptor from its scan in ringbuffer_open to ringbuffer_close. *)
Owners ==
  \A c \in Client : /\ loc[c].rd # NoDescriptor => pc[c] \in Holding
                    /\ pc[c] \in {"mark", "place"} => loc[c].rd \in Descriptor

(* What ringbuffer_write has copied and not yet put in front of pwrite. *)
Copied ==
  piece.filled > 0 =>
    /\ rb.pwrite + piece.filled <= Size
    /\ \A i \in 0 .. piece.filled - 1 : rb.data[rb.pwrite + i] = written + i

(* Whoever reads by the descriptor of another client is known. *)
Apart ==
  \A c, d \in Reading : c # d /\ loc[c].rd = loc[d].rd => c \in shared /\ d \in shared

Safe == Reading \ (lapped \cup shared)

(* The cells from a client's pread on hold the pages that it has yet to be sent, the
   writer is not about to overtake it, and it sends no more than there is. *)
Left(c) == Ahead(rb.pread[loc[c].rd], rb.pwrite)
Owed(c) ==
  /\ rpos[c] + Left(c) = written
  /\ \A i \in 0 .. Left(c) - 1 : rb.data[(rb.pread[loc[c].rd] + i) % Size] = rpos[c] + i
Room(c) == written + piece.filled - rpos[c] < Size
Aim(c) ==
  /\ pc[c] \in {"write1", "write2"} => loc[c].todo <= Left(c)
  /\ pc[c] = "write1" => /\ loc[c].split = Size - rb.pread[loc[c].rd]
                         /\ loc[c].split < loc[c].todo
  /\ pc[c] = "write2" => rb.pread[loc[c].rd] + loc[c].todo <= Size
Fine(c) == Owed(c) /\ Room(c) /\ Aim(c)

Served == \A c \in Safe : Fine(c)
Caused == damaged \subseteq lapped \cup shared

(* While no update of readers has begun within another, descriptors are one client's. *)
Marked == {c \in Client : pc[c] \in Holding \ {"mark"} /\ loc[c].rd # NoDescriptor}
Orderly ==
  /\ \A c \in Marked : loc[c].rd \in rb.readers
  /\ \A c, d \in Marked : loc[c].rd = loc[d].rd => c = d
  /\ \A c, d \in Updating : c = d
  /\ \A c \in Updating : loc[c].seen = rb.readers
  /\ \A c \in Client : pc[c] = "mark" => loc[c].rd \notin rb.readers
  /\ shared = {}

RingInv ==
  RingTypes /\ Owners /\ Copied /\ Apart /\ Served /\ Caused /\ (overlapped \/ Orderly)
-----------------------------------------------------------------------------
(* The functions of the ring buffer that the stream calls. *)
LEMMA RingFields ==
  ASSUME NEW b \in ringbuffer
  PROVE  /\ b.pread \in [Descriptor -> Position] /\ b.pwrite \in Position
         /\ b.readers \in SUBSET Held /\ b.data \in [Position -> Int]
         /\ b.min_pread \in Position \cup Garbage
  BY DEF ringbuffer, Held

LEMMA MinimumTyped ==
  ASSUME NEW b \in ringbuffer, NEW a \in ringbuffer_update_min(b)
  PROVE  /\ a \in ringbuffer /\ a.readers = b.readers /\ a.pread = b.pread
         /\ a.pwrite = b.pwrite /\ a.data = b.data
<1>1. MinPread(b) \subseteq Position \cup Garbage
  BY DEF MinPread, Highest, ringbuffer
<1>. QED BY <1>1 DEF ringbuffer_update_min, ringbuffer

(* The positions a descriptor is at, and the number of bytes in front of it. *)
LEMMA PlaceTyped ==
  ASSUME RingTypes, NEW c \in Client, loc[c].rd # NoDescriptor
  PROVE  /\ loc[c].rd \in Descriptor /\ rb.pread[loc[c].rd] \in Position /\ rb.pwrite \in Position
         /\ Left(c) \in 0 .. Size - 1 /\ Left(c) = ringbuffer_avail(rb, loc[c].rd)
<1>1. rb.pread \in [Descriptor -> Position] /\ rb.pwrite \in Position
  BY RingFields DEF RingTypes
<1>2. loc[c].rd \in Descriptor /\ rb.pread[loc[c].rd] \in Position
  BY <1>1 DEF RingTypes, Held
<1>. QED BY <1>1, <1>2, AheadRange DEF Left, Ahead, ringbuffer_avail

LEMMA SendSome ==
  ASSUME NEW b \in ringbuffer, NEW rd \in Descriptor, NEW n \in 0 .. Size
  PROVE  LET a == DrainStep(b, rd, n)
         IN  /\ a \in ringbuffer /\ a.readers = b.readers /\ a.pwrite = b.pwrite /\ a.data = b.data
             /\ a.pread[rd] = (b.pread[rd] + n) % Size
             /\ \A d \in Descriptor \ {rd} : a.pread[d] = b.pread[d]
<1>. DEFINE p == (b.pread[rd] + n) % Size
<1>1. p \in Position
  BY RingFields, WrapCell
<1>2. DrainStep(b, rd, n) = [b EXCEPT !.pread[rd] = p]
  BY DEF DrainStep
<1>. HIDE DEF p
<1>. QED BY <1>1, <1>2 DEF ringbuffer, p

LEMMA ReadersSet ==
  ASSUME NEW b \in ringbuffer, NEW bits \in SUBSET Held
  PROVE  LET a == [b EXCEPT !.readers = bits]
         IN  /\ a \in ringbuffer /\ a.readers = bits /\ a.pread = b.pread
             /\ a.pwrite = b.pwrite /\ a.data = b.data
BY DEF ringbuffer, Held

LEMMA Placed ==
  ASSUME NEW b \in ringbuffer, NEW rd \in Descriptor
  PROVE  LET a == [b EXCEPT !.pread[rd] = b.pwrite]
         IN  /\ a \in ringbuffer /\ a.readers = b.readers /\ a.pwrite = b.pwrite /\ a.data = b.data
             /\ a.pread[rd] = b.pwrite
             /\ \A d \in Descriptor \ {rd} : a.pread[d] = b.pread[d]
BY DEF ringbuffer
-----------------------------------------------------------------------------
LEMMA TodoSet ==
  ASSUME NEW l, l = Local(l), NEW n
  PROVE  LET v == [l EXCEPT !.todo = n]
         IN  v = Local(v) /\ v.rd = l.rd /\ v.seen = l.seen /\ v.todo = n /\ v.split = l.split
BY DEF Local

LEMMA SplitSet ==
  ASSUME NEW l, l = Local(l), NEW m
  PROVE  LET v == [l EXCEPT !.split = m]
         IN  v = Local(v) /\ v.rd = l.rd /\ v.seen = l.seen /\ v.todo = l.todo /\ v.split = m
BY DEF Local

(* What a client is to write. *)
Counts(l, n, m) == [[l EXCEPT !.todo = n] EXCEPT !.split = m]

LEMMA CountsSet ==
  ASSUME NEW l, l = Local(l), NEW n, NEW m
  PROVE  /\ Counts(l, n, m).rd = l.rd /\ Counts(l, n, m).seen = l.seen
         /\ Counts(l, n, m).todo = n /\ Counts(l, n, m).split = m
<1>. DEFINE v == [l EXCEPT !.todo = n]
            u == [v EXCEPT !.split = m]
<1>1. v = Local(v) /\ v.rd = l.rd /\ v.seen = l.seen /\ v.todo = n /\ v.split = l.split
  BY TodoSet
<1>. HIDE DEF v
<1>2. u = Local(u) /\ u.rd = v.rd /\ u.seen = v.seen /\ u.todo = v.todo /\ u.split = m
  BY <1>1, SplitSet
<1>3. u = Counts(l, n, m)
  BY DEF Counts, v
<1>. HIDE DEF u
<1>. QED BY <1>1, <1>2, <1>3
-----------------------------------------------------------------------------
(* A write() of a client: what it changes, and nothing for the others. *)
Most(c) == IF pc[c] = "write1" THEN loc[c].split ELSE loc[c].todo

SentSome(c, n) ==
  /\ n \in 1 .. Most(c) /\ n \in 0 .. Size
  /\ rb' \in ringbuffer /\ rb'.readers = rb.readers /\ rb'.pwrite = rb.pwrite /\ rb'.data = rb.data
  /\ IF loc[c].rd = NoDescriptor
     THEN /\ rb'.pread = rb.pread /\ active' = (active + n) % Size
          /\ UNCHANGED <<rpos, damaged>>
     ELSE /\ rb'.pread[loc[c].rd] = (rb.pread[loc[c].rd] + n) % Size
          /\ \A r \in Descriptor \ {loc[c].rd} : rb'.pread[r] = rb.pread[r]
          /\ rpos' = [rpos EXCEPT ![c] = Smaller(rpos[c] + n, written)]
          /\ damaged' = IF Faithful(c, n) THEN damaged ELSE damaged \cup {c}
          /\ active' = active
  /\ loc'[c].rd = loc[c].rd /\ loc'[c].seen = loc[c].seen
  /\ loc'[c].todo = (IF pc'[c] = "write2" THEN loc[c].todo - n ELSE 0)
  /\ loc'[c].split \in {0, loc[c].split}
  /\ pc'[c] \in {"test", "write2"}
  /\ pc'[c] = "write2" => pc[c] = "write1" /\ n = loc[c].split

LEMMA SentTyped ==
  ASSUME RingTypes, NEW c \in Client, NEW n \in 0 .. Size, Sent(c, n),
         rb' = Moved(c, n) \/ rb' \in ringbuffer_update_min(Moved(c, n))
  PROVE  /\ rb' \in ringbuffer /\ rb'.readers = rb.readers /\ rb'.pwrite = rb.pwrite /\ rb'.data = rb.data
         /\ IF loc[c].rd = NoDescriptor
            THEN /\ rb'.pread = rb.pread /\ active' = (active + n) % Size
                 /\ UNCHANGED <<rpos, damaged>>
            ELSE /\ rb'.pread[loc[c].rd] = (rb.pread[loc[c].rd] + n) % Size
                 /\ \A r \in Descriptor \ {loc[c].rd} : rb'.pread[r] = rb.pread[r]
                 /\ rpos' = [rpos EXCEPT ![c] = Smaller(rpos[c] + n, written)]
                 /\ damaged' = IF Faithful(c, n) THEN damaged ELSE damaged \cup {c}
                 /\ active' = active
<1>. DEFINE b == Moved(c, n)
<1>1. rb \in ringbuffer
  BY DEF RingTypes
<1>2. /\ b \in ringbuffer /\ b.readers = rb.readers /\ b.pwrite = rb.pwrite /\ b.data = rb.data
      /\ IF loc[c].rd = NoDescriptor
         THEN b.pread = rb.pread
         ELSE /\ b.pread[loc[c].rd] = (rb.pread[loc[c].rd] + n) % Size
              /\ \A r \in Descriptor \ {loc[c].rd} : b.pread[r] = rb.pread[r]
  <2>1. CASE loc[c].rd = NoDescriptor
    BY <1>1, <2>1 DEF Moved
  <2>2. CASE loc[c].rd # NoDescriptor
    <3>1. loc[c].rd \in Descriptor
      BY <2>2, PlaceTyped
    <3>. QED BY <1>1, <2>2, <3>1, SendSome DEF Moved
  <2>. QED BY <2>1, <2>2
<1>. HIDE DEF b
<1>3. /\ rb' \in ringbuffer /\ rb'.readers = b.readers /\ rb'.pread = b.pread
      /\ rb'.pwrite = b.pwrite /\ rb'.data = b.data
  <2>1. CASE rb' = b
    BY <1>2, <2>1
  <2>2. CASE rb' \in ringbuffer_update_min(b)
    BY <1>2, <2>2, MinimumTyped
  <2>. QED BY <2>1, <2>2 DEF b
<1>. QED BY <1>2, <1>3 DEF Sent

LEMMA WriteEffect ==
  ASSUME Types, RingTypes, NEW c \in Client, Write1(c) \/ Write2(c)
  PROVE  \E n : SentSome(c, n)
<1>0. /\ loc[c].todo \in 0 .. Size /\ loc[c].split \in 0 .. Size
      /\ pc \in [Client -> ClientPoint] /\ loc = [d \in Client |-> Local(loc[d])]
  BY DEF Types, RingTypes
<1>1. CASE Write1(c)
  <2>1. PICK n \in 1 .. loc[c].split :
          /\ Sent(c, n)
          /\ IF n = loc[c].split
             THEN /\ rb' = Moved(c, n)
                  /\ loc' = [loc EXCEPT ![c].todo = @ - n, ![c].split = 0]
                  /\ pc' = [pc EXCEPT ![c] = "write2"]
             ELSE /\ rb' \in ringbuffer_update_min(Moved(c, n))
                  /\ loc' = [loc EXCEPT ![c].todo = 0, ![c].split = 0]
                  /\ pc' = [pc EXCEPT ![c] = "test"]
    BY <1>1 DEF Write1
  <2>2. n \in 0 .. Size /\ Most(c) = loc[c].split /\ pc[c] = "write1"
    <3>1. loc[c].split \in 0 .. Size
      BY <1>0
    <3>2. n \in 0 .. Size
      BY <3>1, SizeAssumption
    <3>. QED BY <1>1, <3>2 DEF Most, Write1
  <2>3. /\ loc'[c].rd = loc[c].rd /\ loc'[c].seen = loc[c].seen
        /\ loc'[c].todo = (IF n = loc[c].split THEN loc[c].todo - n ELSE 0) /\ loc'[c].split = 0
    <3>. DEFINE k == IF n = loc[c].split THEN loc[c].todo - n ELSE 0
                l == loc[c]
    <3>1. l = Local(l)
      BY <1>0
    <3>2. loc' = [loc EXCEPT ![c] = Counts(l, k, 0)]
      <4>1. CASE n = loc[c].split
        BY <2>1, <4>1 DEF Counts
      <4>2. CASE n # loc[c].split
        BY <2>1, <4>2 DEF Counts
      <4>. QED BY <4>1, <4>2
    <3>3. loc'[c] = Counts(l, k, 0)
      BY <1>0, <3>2
    <3>. HIDE DEF k, l
    <3>4. /\ Counts(l, k, 0).rd = l.rd /\ Counts(l, k, 0).seen = l.seen
          /\ Counts(l, k, 0).todo = k /\ Counts(l, k, 0).split = 0
      BY <3>1, CountsSet
    <3>. QED BY <3>3, <3>4 DEF k, l
  <2>4. pc'[c] = IF n = loc[c].split THEN "write2" ELSE "test"
    BY <1>0, <2>1
  <2>5. rb' = Moved(c, n) \/ rb' \in ringbuffer_update_min(Moved(c, n))
    BY <2>1
  <2>6. Sent(c, n)
    BY <2>1
  <2>7. loc'[c].todo = (IF pc'[c] = "write2" THEN loc[c].todo - n ELSE 0) /\ loc'[c].split \in {0, loc[c].split}
    BY <2>3, <2>4
  <2>8. pc'[c] \in {"test", "write2"}
        /\ (pc'[c] = "write2" => pc[c] = "write1" /\ n = loc[c].split)
    BY <2>2, <2>4
  <2>. QED BY <2>1, <2>2, <2>3, <2>5, <2>6, <2>7, <2>8, SentTyped DEF SentSome
<1>2. CASE Write2(c)
  <2>1. PICK n \in 1 .. loc[c].todo : Sent(c, n) /\ rb' \in ringbuffer_update_min(Moved(c, n))
    BY <1>2 DEF Write2
  <2>2. n \in 0 .. Size /\ Most(c) = loc[c].todo
    BY <1>0, <1>2, SizeAssumption DEF Most, Write2
  <2>3. /\ loc'[c].rd = loc[c].rd /\ loc'[c].seen = loc[c].seen
        /\ loc'[c].todo = 0 /\ loc'[c].split = loc[c].split
    <3>. DEFINE l == loc[c]
                v == [l EXCEPT !.todo = 0]
    <3>1. l = Local(l)
      BY <1>0
    <3>2. loc'[c] = v
      BY <1>0, <1>2 DEF Write2
    <3>. HIDE DEF l
    <3>3. v.rd = l.rd /\ v.seen = l.seen /\ v.todo = 0 /\ v.split = l.split
      BY <3>1, TodoSet
    <3>. HIDE DEF v
    <3>. QED BY <3>2, <3>3 DEF l
  <2>4. pc'[c] = "test"
    BY <1>0, <1>2 DEF Write2
  <2>. QED BY <2>1, <2>2, <2>3, <2>4, SentTyped DEF SentSome
<1>. QED BY <1>1, <1>2
-----------------------------------------------------------------------------
(* What the other steps of a client leave in its locals. *)
LEMMA LenSet ==
  ASSUME NEW l, l = Local(l), NEW x
  PROVE  LET v == [l EXCEPT !.len = x]
         IN  v.rd = l.rd /\ v.seen = l.seen /\ v.todo = l.todo /\ v.split = l.split
BY DEF Local

LEMMA SeenSet ==
  ASSUME NEW l, l = Local(l), NEW x
  PROVE  LET v == [l EXCEPT !.seen = x]
         IN  v.rd = l.rd /\ v.seen = x /\ v.todo = l.todo /\ v.split = l.split
BY DEF Local

LEMMA DescriptorSet ==
  ASSUME NEW l, l = Local(l), NEW x
  PROVE  LET v == [l EXCEPT !.rd = x]
         IN  v = Local(v) /\ v.rd = x /\ v.seen = l.seen /\ v.todo = l.todo /\ v.split = l.split
BY DEF Local

LEMMA NewLocals ==
  ASSUME NEW x
  PROVE  /\ NoLocals.rd = NoDescriptor /\ NoLocals.seen = {} /\ NoLocals.todo = 0 /\ NoLocals.split = 0
         /\ LET v == [NoLocals EXCEPT !.got = x]
            IN  v.rd = NoDescriptor /\ v.seen = {} /\ v.todo = 0 /\ v.split = 0
         /\ LET v == [NoLocals EXCEPT !.rd = x]
            IN  v.rd = x /\ v.seen = {} /\ v.todo = 0 /\ v.split = 0
BY DEF NoLocals

Locals(c, rd, seen, todo, split) ==
  loc'[c].rd = rd /\ loc'[c].seen = seen /\ loc'[c].todo = todo /\ loc'[c].split = split

LEMMA FrontEffect ==
  ASSUME Types, Owners, NEW c \in Client, Connect(c) \/ HeadersReady(c) \/ LoadLength(c) \/ Sendfile(c)
  PROVE  /\ loc[c].rd = NoDescriptor /\ pc'[c] \in {"wait", "load", "send", "open", "done"}
         /\ pc[c] \in {"new", "wait", "load", "send"}
         /\ \/ Locals(c, NoDescriptor, loc[c].seen, loc[c].todo, loc[c].split)
            \/ Locals(c, NoDescriptor, {}, 0, 0)
         /\ UNCHANGED <<rpos, headless, damaged, lapped, shared, overlapped>>
         /\ excused' \in {excused, excused \cup {c}}
<1>. USE DEF Types
<1>1. /\ pc[c] \in {"new", "wait", "load", "send"} /\ pc'[c] \in {"wait", "load", "send", "open", "done"}
      /\ UNCHANGED <<rpos, headless, damaged, lapped, shared, overlapped>>
      /\ excused' \in {excused, excused \cup {c}}
  BY DEF Connect, HeadersReady, LoadLength, Sendfile, historyVars
<1>2. loc[c].rd = NoDescriptor
  BY <1>1 DEF Owners, Holding
<1>3. CASE Connect(c) \/ HeadersReady(c)
  <2>1. loc' = loc
    BY <1>3 DEF Connect, HeadersReady
  <2>. QED BY <1>1, <1>2, <2>1 DEF Locals
<1>4. CASE LoadLength(c)
  <2>. DEFINE l == loc[c]
              v == [l EXCEPT !.len = headers_len]
  <2>1. l = Local(l) /\ loc'[c] = v
    BY <1>4 DEF LoadLength
  <2>. HIDE DEF l
  <2>2. v.rd = l.rd /\ v.seen = l.seen /\ v.todo = l.todo /\ v.split = l.split
    BY <2>1, LenSet
  <2>. HIDE DEF v
  <2>. QED BY <1>1, <1>2, <2>1, <2>2 DEF l, Locals
<1>5. CASE Sendfile(c)
  <2>0. \/ loc' = [loc EXCEPT ![c] = [NoLocals EXCEPT !.got = SubSeq(file, 1, loc[c].len)]]
        \/ loc' = [loc EXCEPT ![c] = NoLocals]
    BY <1>5 DEF Sendfile
  <2>1. \/ loc'[c] = [NoLocals EXCEPT !.got = SubSeq(file, 1, loc[c].len)]
        \/ loc'[c] = NoLocals
    BY <2>0
  <2>2. ASSUME NEW got, loc'[c] = [NoLocals EXCEPT !.got = got] PROVE Locals(c, NoDescriptor, {}, 0, 0)
    <3>. DEFINE v == [NoLocals EXCEPT !.got = got]
    <3>1. v.rd = NoDescriptor /\ v.seen = {} /\ v.todo = 0 /\ v.split = 0
      BY NewLocals
    <3>2. loc'[c] = v
      BY <2>2
    <3>. HIDE DEF v
    <3>. QED BY <3>1, <3>2 DEF Locals
  <2>3. ASSUME loc'[c] = NoLocals PROVE Locals(c, NoDescriptor, {}, 0, 0)
    <3>1. /\ NoLocals.rd = NoDescriptor /\ NoLocals.seen = {} /\ NoLocals.todo = 0
          /\ NoLocals.split = 0
      BY DEF NoLocals
    <3>. QED BY <2>3, <3>1 DEF Locals
  <2>. QED BY <1>1, <1>2, <2>1, <2>2, <2>3
<1>. QED BY <1>3, <1>4, <1>5

LEMMA LoopEffect ==
  ASSUME Types, NEW c \in Client, TestActive(c) \/ InputReady(c) \/ WriteFails(c)
  PROVE  /\ loc'[c].rd = loc[c].rd /\ loc'[c].seen = loc[c].seen
         /\ loc'[c].todo \in {0, loc[c].todo} /\ loc'[c].split \in {0, loc[c].split}
         /\ pc[c] \in {"test", "live", "write1", "write2"} /\ pc'[c] \in {"live", "avail", "close"}
         /\ UNCHANGED <<rpos, historyVars>>
<1>. USE DEF Types
<1>1. /\ pc[c] \in {"test", "live", "write1", "write2"} /\ pc'[c] \in {"live", "avail", "close"}
      /\ UNCHANGED <<rpos, historyVars>>
  BY DEF TestActive, InputReady, WriteFails, historyVars
<1>2. CASE TestActive(c) \/ InputReady(c)
  BY <1>1, <1>2 DEF TestActive, InputReady
<1>3. CASE WriteFails(c)
  <2>. DEFINE l == loc[c]
  <2>1. l = Local(l) /\ loc'[c] = Counts(l, 0, 0)
    BY <1>3 DEF WriteFails, Counts
  <2>. HIDE DEF l
  <2>2. /\ Counts(l, 0, 0).rd = l.rd /\ Counts(l, 0, 0).seen = l.seen
        /\ Counts(l, 0, 0).todo = 0 /\ Counts(l, 0, 0).split = 0
    BY <2>1, CountsSet
  <2>. QED BY <1>1, <2>1, <2>2 DEF l
<1>. QED BY <1>2, <1>3

Available(c) == ringbuffer_avail(WithActive, loc[c].rd)

LEMMA AvailEffect ==
  ASSUME Types, NEW c \in Client, Avail(c)
  PROVE  /\ Locals(c, loc[c].rd, loc[c].seen, Available(c),
                   Split(WithActive.pread[loc[c].rd], Available(c)))
         /\ pc[c] = "avail"
         /\ pc'[c] = IF Available(c) = 0 THEN "test"
                     ELSE IF Split(WithActive.pread[loc[c].rd], Available(c)) > 0 THEN "write1" ELSE "write2"
         /\ UNCHANGED <<rpos, historyVars>>
<1>. DEFINE l == loc[c]
            todo == Available(c)
            split == Split(WithActive.pread[loc[c].rd], todo)
<1>1. l = Local(l) /\ loc'[c] = Counts(l, todo, split)
  BY DEF Avail, Types, Counts, Available
<1>2. /\ pc[c] = "avail" /\ UNCHANGED <<rpos, historyVars>>
      /\ pc'[c] = IF todo = 0 THEN "test" ELSE IF split > 0 THEN "write1" ELSE "write2"
  BY DEF Avail, Types, Available, historyVars
<1>. HIDE DEF l, todo, split
<1>3. /\ Counts(l, todo, split).rd = l.rd /\ Counts(l, todo, split).seen = l.seen
      /\ Counts(l, todo, split).todo = todo /\ Counts(l, todo, split).split = split
  BY <1>1, CountsSet
<1>4. Locals(c, l.rd, l.seen, todo, split)
  BY <1>1, <1>3 DEF Locals
<1>. QED BY <1>2, <1>4 DEF l, todo, split

LEMMA ScanEffect ==
  ASSUME Types, NEW c \in Client, Scan(c)
  PROVE  /\ \E rd \in Lowest(rb.readers) : Locals(c, rd, rb.readers, loc[c].todo, loc[c].split)
         /\ pc[c] = "open" /\ pc'[c] = "mark" /\ overlapped' = (overlapped \/ Updating # {})
         /\ UNCHANGED <<rb, rpos, headless, excused, damaged, lapped, shared>>
<1>1. /\ pc[c] = "open" /\ pc'[c] = "mark" /\ overlapped' = (overlapped \/ Updating # {})
      /\ UNCHANGED <<rb, rpos, headless, excused, damaged, lapped, shared>>
  BY DEF Scan, Types
<1>2. PICK rd \in Lowest(rb.readers) : loc' = [loc EXCEPT ![c].rd = rd, ![c].seen = rb.readers]
  BY DEF Scan
<1>. DEFINE l == loc[c]
            v == [l EXCEPT !.rd = rd]
            u == [v EXCEPT !.seen = rb.readers]
<1>3. l = Local(l) /\ loc'[c] = u
  BY <1>2 DEF Types
<1>. HIDE DEF l
<1>4. v = Local(v) /\ v.rd = rd /\ v.seen = l.seen /\ v.todo = l.todo /\ v.split = l.split
  BY <1>3, DescriptorSet
<1>. HIDE DEF v
<1>5. u.rd = v.rd /\ u.seen = rb.readers /\ u.todo = v.todo /\ u.split = v.split
  BY <1>4, SeenSet
<1>. HIDE DEF u
<1>6. Locals(c, rd, rb.readers, l.todo, l.split)
  BY <1>3, <1>4, <1>5 DEF Locals
<1>. QED BY <1>1, <1>6 DEF l

LEMMA SeenEffect ==
  ASSUME Types, NEW c \in Client, Mark(c) \/ CloseLoad(c)
  PROVE  Locals(c, loc[c].rd, IF Mark(c) THEN {} ELSE rb.readers, loc[c].todo, loc[c].split)
<1>. DEFINE l == loc[c]
            x == IF Mark(c) THEN {} ELSE rb.readers
            v == [l EXCEPT !.seen = x]
<1>1. l = Local(l)
  BY DEF Types
<1>2. loc'[c] = v
  <2>1. CASE Mark(c)
    BY <2>1 DEF Mark, Types
  <2>2. CASE ~ Mark(c)
    BY <2>2 DEF CloseLoad, Types
  <2>. QED BY <2>1, <2>2
<1>. HIDE DEF l, x
<1>3. v.rd = l.rd /\ v.seen = x /\ v.todo = l.todo /\ v.split = l.split
  BY <1>1, SeenSet
<1>. HIDE DEF v
<1>4. Locals(c, l.rd, x, l.todo, l.split)
  BY <1>2, <1>3 DEF Locals
<1>. QED BY <1>4 DEF l, x

LEMMA LiveEffect ==
  ASSUME Types, NEW c \in Client, GoLive(c)
  PROVE  /\ Locals(c, loc[c].rd, {}, 0, 0) /\ pc'[c] = "test" /\ rpos' = [rpos EXCEPT ![c] = written]
         /\ headless' \in {headless, headless \cup {c}} /\ excused' \in {excused, excused \cup {c}}
<1>1. loc'[c] = [NoLocals EXCEPT !.rd = loc[c].rd]
  BY DEF GoLive, Types
<1>2. Locals(c, loc[c].rd, {}, 0, 0)
  BY <1>1, NewLocals DEF Locals
<1>. QED BY <1>2 DEF GoLive, Types

LEMMA GoneEffect ==
  ASSUME Types, NEW c \in Client, CloseStore(c)
  PROVE  Locals(c, NoDescriptor, {}, 0, 0) /\ pc'[c] = "done" /\ pc[c] = "unmark"
<1>1. loc'[c] = NoLocals
  BY DEF CloseStore, Types
<1>2. Locals(c, NoDescriptor, {}, 0, 0)
  BY <1>1, NewLocals DEF Locals
<1>. QED BY <1>2 DEF CloseStore, Types
-----------------------------------------------------------------------------
LEMMA AvailableTyped ==
  ASSUME RingTypes, NEW c \in Client
  PROVE  /\ WithActive.pread[loc[c].rd] \in 0 .. Size /\ Available(c) \in 0 .. Size
         /\ loc[c].rd # NoDescriptor => /\ WithActive.pread[loc[c].rd] = rb.pread[loc[c].rd]
                                        /\ Available(c) = Left(c)
<1>. DEFINE pread == [d \in Descriptor \cup {NoDescriptor} |->
                        IF d = NoDescriptor THEN active ELSE rb.pread[d]]
            rd == loc[c].rd
<1>1. /\ rb \in ringbuffer /\ rb.pread \in [Descriptor -> Position] /\ rb.pwrite \in Position
      /\ active \in 0 .. Size /\ rd \in Held
  BY RingFields DEF RingTypes
<1>2. WithActive.pread = pread /\ WithActive.pwrite = rb.pwrite
  BY <1>1 DEF WithActive, ringbuffer
<1>3. pread[rd] \in 0 .. Size /\ (rd # NoDescriptor => pread[rd] = rb.pread[rd])
  BY <1>1, SizeAssumption DEF Held, Position
<1>. HIDE DEF pread
<1>4. Available(c) = IF rb.pwrite - pread[rd] < 0 THEN rb.pwrite - pread[rd] + Size ELSE rb.pwrite - pread[rd]
  BY <1>2 DEF Available, ringbuffer_avail
<1>. HIDE DEF rd
<1>5. Available(c) \in 0 .. Size
  BY <1>1, <1>3, <1>4, SizeAssumption DEF Position
<1>6. rd # NoDescriptor => Available(c) = Left(c)
  BY <1>3, <1>4 DEF Left, Ahead, rd
<1>. QED BY <1>2, <1>3, <1>5, <1>6 DEF rd

(* What a client's step leaves of the ring buffer. *)
Moves(c) == pc[c] \in {"place", "write1", "write2"}

LEMMA MarkTyped ==
  ASSUME RingTypes, Owners, NEW c \in Client, Mark(c)
  PROVE  /\ rb' \in ringbuffer /\ rb'.pread = rb.pread /\ rb'.pwrite = rb.pwrite /\ rb'.data = rb.data
         /\ rb'.readers \in {loc[c].seen \cup {loc[c].rd}, rb.readers \cup {loc[c].rd}}
<1>1. PICK readers \in {loc[c].seen, rb.readers} : rb' = [rb EXCEPT !.readers = readers \cup {loc[c].rd}]
  BY DEF Mark
<1>. DEFINE bits == readers \cup {loc[c].rd}
<1>2. rb \in ringbuffer /\ bits \in SUBSET Held
  BY RingFields DEF RingTypes
<1>3. bits \in {loc[c].seen \cup {loc[c].rd}, rb.readers \cup {loc[c].rd}}
  OBVIOUS
<1>. HIDE DEF bits
<1>4. rb' = [rb EXCEPT !.readers = bits]
  BY <1>1 DEF bits
<1>. QED BY <1>2, <1>3, <1>4, ReadersSet

LEMMA CloseTyped ==
  ASSUME RingTypes, NEW c \in Client, CloseStore(c)
  PROVE  /\ rb' \in ringbuffer /\ rb'.pread = rb.pread /\ rb'.pwrite = rb.pwrite /\ rb'.data = rb.data
         /\ rb'.readers = ToggleBit(loc[c].seen, loc[c].rd)
<1>. DEFINE bits == ToggleBit(loc[c].seen, loc[c].rd)
            b == [rb EXCEPT !.readers = bits]
<1>1. rb \in ringbuffer /\ bits \in SUBSET Held
  BY DEF RingTypes, ToggleBit
<1>2. rb' \in ringbuffer_update_min(b)
  BY DEF CloseStore
<1>. HIDE DEF bits
<1>3. b \in ringbuffer /\ b.readers = bits /\ b.pread = rb.pread /\ b.pwrite = rb.pwrite /\ b.data = rb.data
  BY <1>1, ReadersSet
<1>. HIDE DEF b
<1>4. rb' \in ringbuffer /\ rb'.readers = b.readers /\ rb'.pread = b.pread /\ rb'.pwrite = b.pwrite
      /\ rb'.data = b.data
  BY <1>2, <1>3, MinimumTyped
<1>. QED BY <1>3, <1>4 DEF bits

LEMMA PlaceEffect ==
  ASSUME Types, RingTypes, Owners, NEW c \in Client, Place(c)
  PROVE  /\ loc[c].rd \in Descriptor /\ loc[c].rd # NoDescriptor
         /\ rb' \in ringbuffer /\ rb'.readers = rb.readers /\ rb'.pwrite = rb.pwrite /\ rb'.data = rb.data
         /\ rb'.pread[loc[c].rd] = rb.pwrite
         /\ \A r \in Descriptor \ {loc[c].rd} : rb'.pread[r] = rb.pread[r]
         /\ Locals(c, loc[c].rd, {}, 0, 0) /\ pc[c] = "place" /\ pc'[c] = "test"
         /\ rpos' = [rpos EXCEPT ![c] = written]
         /\ headless' \in {headless, headless \cup {c}} /\ excused' \in {excused, excused \cup {c}}
         /\ UNCHANGED <<damaged, lapped, overlapped>>
<1>1. loc[c].rd \in Descriptor /\ loc[c].rd # NoDescriptor /\ rb \in ringbuffer
  BY DEF Place, Owners, Descriptor, NoDescriptor, RingTypes
<1>2. rb' = [rb EXCEPT !.pread[loc[c].rd] = rb.pwrite]
  BY DEF Place
<1>3. /\ rb' \in ringbuffer /\ rb'.readers = rb.readers /\ rb'.pwrite = rb.pwrite /\ rb'.data = rb.data
      /\ rb'.pread[loc[c].rd] = rb.pwrite
      /\ \A r \in Descriptor \ {loc[c].rd} : rb'.pread[r] = rb.pread[r]
  BY <1>1, <1>2, Placed
<1>. QED BY <1>1, <1>3, LiveEffect DEF Place

LEMMA ThreadRing ==
  ASSUME Types, RingTypes, Owners, NEW c \in Client, Thread(c)
  PROVE  /\ rb' \in ringbuffer /\ rb'.pwrite = rb.pwrite /\ rb'.data = rb.data
         /\ UNCHANGED <<written, piece>>
         /\ \A r \in Descriptor : r # loc[c].rd \/ ~ Moves(c) => rb'.pread[r] = rb.pread[r]
         /\ rpos' \in [Client -> Nat] /\ rpos'[c] <= written
         /\ \A d \in Client \ {c} : rpos'[d] = rpos[d]
         /\ active' \in 0 .. Size
<1>0. /\ rb \in ringbuffer /\ rpos \in [Client -> Nat] /\ written \in Nat /\ active \in 0 .. Size
      /\ rpos[c] <= written /\ UNCHANGED <<written, piece>>
  BY DEF RingTypes, Thread
<1>1. CASE Quiet(c) /\ UNCHANGED <<rb, active>>
  <2>1. rpos' = rpos
    BY <1>1 DEF Quiet, Connect, HeadersReady, LoadLength, Sendfile, TestActive, InputReady, Avail,
                WriteFails, CloseLoad
  <2>. QED BY <1>0, <1>1, <2>1
<1>2. CASE (Scan(c) \/ ScanFails(c)) /\ UNCHANGED active
  <2>1. UNCHANGED rb /\ rpos' \in {rpos, [rpos EXCEPT ![c] = written]}
    BY <1>2 DEF Scan, ScanFails, GoLive
  <2>. QED BY <1>0, <1>2, <2>1
<1>3. CASE Mark(c) /\ UNCHANGED active
  BY <1>0, <1>3, MarkTyped DEF Mark
<1>4. CASE Place(c) /\ UNCHANGED active
  BY <1>0, <1>4, PlaceEffect DEF Moves
<1>5. CASE CloseStore(c) /\ UNCHANGED active
  <2>1. rpos' = [rpos EXCEPT ![c] = 0]
    BY <1>5 DEF CloseStore
  <2>. QED BY <1>0, <1>5, <2>1, CloseTyped
<1>6. CASE Write1(c) \/ Write2(c)
  <2>1. PICK n : SentSome(c, n)
    BY <1>6, WriteEffect
  <2>2. Moves(c)
    BY <1>6 DEF Write1, Write2, Moves
  <2>3. n \in Nat /\ n \in 0 .. Size
    BY <2>1, SizeAssumption DEF SentSome
  <2>4. CASE loc[c].rd = NoDescriptor
    <3>1. active' = (active + n) % Size /\ UNCHANGED <<rpos>>
      BY <2>1, <2>4 DEF SentSome
    <3>2. active' \in 0 .. Size
      <4>1. active + n \in Nat
        BY <1>0, <2>3
      <4>. QED BY <3>1, <4>1, SizeAssumption
    <3>. QED BY <1>0, <2>1, <2>2, <2>4, <3>1, <3>2 DEF SentSome
  <2>5. CASE loc[c].rd # NoDescriptor
    <3>1. rpos' = [rpos EXCEPT ![c] = Smaller(rpos[c] + n, written)] /\ active' = active
      BY <2>1, <2>5 DEF SentSome
    <3>2. Smaller(rpos[c] + n, written) \in Nat /\ Smaller(rpos[c] + n, written) <= written
      BY <1>0, <2>3 DEF Smaller
    <3>. QED BY <1>0, <2>1, <2>2, <2>5, <3>1, <3>2 DEF SentSome
  <2>. QED BY <2>4, <2>5
<1>. QED BY <1>1, <1>2, <1>3, <1>4, <1>5, <1>6 DEF Thread, Opens

(* Only the client's own locals change, and keep their ranges. *)
LEMMA LocalsTyped ==
  ASSUME Types, RingTypes, Owners, NEW c \in Client, Thread(c)
  PROVE  /\ loc'[c].rd \in Held /\ loc'[c].seen \in SUBSET Held
         /\ loc'[c].todo \in 0 .. Size /\ loc'[c].split \in 0 .. Size
         /\ pc'[c] = "write1" => loc'[c].split <= loc'[c].todo
         /\ loc'[c].rd # NoDescriptor => pc'[c] \in Holding
         /\ pc'[c] \in {"mark", "place"} => loc'[c].rd \in Descriptor
<1>0. /\ loc[c].rd \in Held /\ loc[c].seen \in SUBSET Held /\ rb.readers \in SUBSET Held
      /\ loc[c].todo \in 0 .. Size /\ loc[c].split \in 0 .. Size /\ 0 \in 0 .. Size
      /\ NoDescriptor \in Held /\ (pc[c] = "write1" => loc[c].split <= loc[c].todo)
      /\ loc[c].rd # NoDescriptor => pc[c] \in Holding
      /\ pc[c] \in {"mark", "place"} => loc[c].rd \in Descriptor
  BY RingFields, SizeAssumption DEF RingTypes, Owners, Held
<1>1. CASE Connect(c) \/ HeadersReady(c) \/ LoadLength(c) \/ Sendfile(c)
  BY <1>0, <1>1, FrontEffect DEF Locals
<1>2. CASE TestActive(c) \/ InputReady(c) \/ WriteFails(c)
  BY <1>0, <1>2, LoopEffect DEF Holding
<1>3. CASE Avail(c)
  <2>. DEFINE pos == WithActive.pread[loc[c].rd]
  <2>1. pos \in 0 .. Size /\ Available(c) \in 0 .. Size
    BY AvailableTyped
  <2>2. Split(pos, Available(c)) \in 0 .. Size /\ (Split(pos, Available(c)) > 0 => Split(pos, Available(c)) <= Available(c))
    <3>. HIDE DEF pos
    <3>. QED BY <2>1, SizeAssumption DEF Split
  <2>3. /\ Locals(c, loc[c].rd, loc[c].seen, Available(c), Split(pos, Available(c)))
        /\ pc'[c] \in {"test", "write1", "write2"} /\ pc[c] = "avail"
        /\ pc'[c] = "write1" => Split(pos, Available(c)) > 0
    BY <1>3, AvailEffect
  <2>. HIDE DEF pos
  <2>. QED BY <1>0, <2>1, <2>2, <2>3 DEF Locals, Holding
<1>4. CASE Scan(c)
  <2>1. PICK rd \in Lowest(rb.readers) : Locals(c, rd, rb.readers, loc[c].todo, loc[c].split)
    BY <1>4, ScanEffect
  <2>2. rd \in Descriptor
    BY <2>1 DEF Lowest
  <2>3. pc'[c] = "mark"
    BY <1>4, ScanEffect
  <2>. QED BY <1>0, <2>1, <2>2, <2>3 DEF Locals, Held, Holding
<1>5. CASE ScanFails(c) \/ Place(c)
  <2>1. Locals(c, loc[c].rd, {}, 0, 0) /\ pc'[c] = "test"
    BY <1>5, LiveEffect DEF ScanFails, Place
  <2>. QED BY <1>0, <2>1 DEF Locals, Holding
<1>6. CASE Mark(c) \/ CloseLoad(c)
  <2>1. Locals(c, loc[c].rd, IF Mark(c) THEN {} ELSE rb.readers, loc[c].todo, loc[c].split)
    BY <1>6, SeenEffect
  <2>2. \/ pc[c] = "mark" /\ pc'[c] = "place"
        \/ pc[c] = "close" /\ pc'[c] = "unmark"
    BY <1>6 DEF Mark, CloseLoad, Types
  <2>. QED BY <1>0, <2>1, <2>2 DEF Locals, Holding
<1>7. CASE Write1(c) \/ Write2(c)
  <2>1. PICK n : SentSome(c, n)
    BY <1>7, WriteEffect
  <2>2. /\ loc'[c].rd = loc[c].rd /\ loc'[c].seen = loc[c].seen
        /\ loc'[c].todo = (IF pc'[c] = "write2" THEN loc[c].todo - n ELSE 0)
        /\ loc'[c].split \in {0, loc[c].split} /\ pc'[c] \in {"test", "write2"}
        /\ pc'[c] = "write2" => pc[c] = "write1" /\ n = loc[c].split
    BY <2>1 DEF SentSome
  <2>3. loc'[c].todo \in 0 .. Size
    BY <1>0, <2>2, SizeAssumption
  <2>. QED BY <1>0, <1>7, <2>2, <2>3 DEF Holding, Write1, Write2
<1>8. CASE CloseStore(c)
  BY <1>0, <1>8, GoneEffect DEF Locals
<1>. QED BY <1>1, <1>2, <1>3, <1>4, <1>5, <1>6, <1>7, <1>8 DEF Thread, Quiet, Opens

LEMMA ThreadTyped ==
  ASSUME Types, RingTypes, Owners, NEW c \in Client, Thread(c) PROVE RingTypes' /\ Owners'
<1>1. /\ loc'[c].rd \in Held /\ loc'[c].seen \in SUBSET Held
      /\ loc'[c].todo \in 0 .. Size /\ loc'[c].split \in 0 .. Size
      /\ pc'[c] = "write1" => loc'[c].split <= loc'[c].todo
      /\ loc'[c].rd # NoDescriptor => pc'[c] \in Holding
      /\ pc'[c] \in {"mark", "place"} => loc'[c].rd \in Descriptor
  BY LocalsTyped
<1>2. \A d \in Client \ {c} : loc'[d] = loc[d] /\ pc'[d] = pc[d]
  BY LocalsKept
<1>3. headless' \cup excused' \cup damaged' \cup lapped' \cup shared' \subseteq Client
  <2>0. headless \cup excused \cup damaged \cup lapped \cup shared \subseteq Client
    BY DEF RingTypes
  <2>1. CASE Quiet(c)
    BY <2>0, <2>1 DEF Quiet, Connect, HeadersReady, LoadLength, Sendfile, TestActive, InputReady, Avail,
                      WriteFails, CloseLoad, historyVars
  <2>2. CASE Opens(c)
    BY <2>0, <2>2 DEF Opens, Scan, ScanFails, Mark, Place, GoLive, Reading, historyVars
  <2>3. CASE CloseStore(c)
    BY <2>0, <2>3 DEF CloseStore
  <2>4. CASE Write1(c) \/ Write2(c)
    BY <2>0, <2>4 DEF Write1, Write2, Sent
  <2>. QED BY <2>1, <2>2, <2>3, <2>4 DEF Thread
<1>4. /\ rb' \in ringbuffer /\ UNCHANGED <<written, piece>> /\ active' \in 0 .. Size
      /\ rpos' \in [Client -> Nat] /\ rpos'[c] <= written
      /\ \A d \in Client \ {c} : rpos'[d] = rpos[d]
  BY ThreadRing
<1>5. RingTypes'
  <2>1. ASSUME NEW d \in Client
        PROVE  /\ loc'[d].rd \in Held
               /\ loc'[d].seen \in SUBSET Held
               /\ loc'[d].todo \in 0 .. Size
               /\ loc'[d].split \in 0 .. Size
               /\ pc'[d] = "write1" => loc'[d].split <= loc'[d].todo
               /\ rpos'[d] <= written'
    <3>1. CASE d = c
      BY <1>1, <1>4, <3>1
    <3>2. CASE d # c
      BY <1>2, <1>4, <3>2 DEF RingTypes
    <3>. QED BY <3>1, <3>2
  <2>. QED BY <1>3, <1>4, <2>1 DEF RingTypes
<1>6. Owners'
  BY <1>1, <1>2 DEF Owners
<1>. QED BY <1>5, <1>6
-----------------------------------------------------------------------------
(* Who reads by a descriptor, after a client's step. *)
LEMMA ReadersAfter ==
  ASSUME Types, RingTypes, Owners, NEW c \in Client, Thread(c)
  PROVE  /\ Reading' \ {c} = Reading \ {c}
         /\ c \in Reading' => c \in Reading \/ Place(c)
         /\ c \in Reading' => loc'[c].rd = loc[c].rd /\ loc[c].rd \in Descriptor
         /\ lapped \subseteq lapped' \cup {c} /\ shared \subseteq shared' \cup {c}
<1>1. \A d \in Client \ {c} : loc'[d] = loc[d] /\ pc'[d] = pc[d]
  BY LocalsKept
<1>2. Reading' \ {c} = Reading \ {c}
  BY <1>1 DEF Reading
<1>3. CASE Connect(c) \/ HeadersReady(c) \/ LoadLength(c) \/ Sendfile(c)
  BY <1>2, <1>3, FrontEffect DEF Reading
<1>4. CASE TestActive(c) \/ InputReady(c) \/ WriteFails(c)
  BY <1>2, <1>4, LoopEffect, PlaceTyped DEF Reading, historyVars
<1>5. CASE Avail(c)
  BY <1>2, <1>5, AvailEffect, PlaceTyped DEF Reading, Locals, historyVars
<1>6. CASE Scan(c)
  BY <1>2, <1>6, ScanEffect DEF Reading
<1>7. CASE ScanFails(c)
  <2>1. loc[c].rd = NoDescriptor
    BY <1>7 DEF Owners, Holding, ScanFails
  <2>2. loc'[c].rd = NoDescriptor
    BY <1>7, <2>1, LiveEffect DEF ScanFails, Locals
  <2>. QED BY <1>2, <1>7, <2>2 DEF Reading, ScanFails
<1>8. CASE Mark(c) \/ CloseLoad(c)
  BY <1>2, <1>8 DEF Reading, Mark, CloseLoad, Types, historyVars
<1>9. CASE Place(c)
  BY <1>2, <1>9, PlaceEffect DEF Reading, Locals, Place
<1>10. CASE Write1(c) \/ Write2(c)
  <2>1. PICK n : SentSome(c, n)
    BY <1>10, WriteEffect
  <2>2. loc'[c].rd = loc[c].rd /\ UNCHANGED <<lapped, shared>> /\ pc[c] \in {"write1", "write2"}
    BY <1>10, <2>1 DEF SentSome, Write1, Write2
  <2>. QED BY <1>2, <2>2, PlaceTyped DEF Reading
<1>11. CASE CloseStore(c)
  BY <1>2, <1>11, GoneEffect DEF Reading, CloseStore
<1>. QED BY <1>3, <1>4, <1>5, <1>6, <1>7, <1>8, <1>9, <1>10, <1>11 DEF Thread, Quiet, Opens

LEMMA ThreadApart ==
  ASSUME Types, RingTypes, Owners, Apart, NEW c \in Client, Thread(c) PROVE Apart'
<1>1. \A d \in Client \ {c} : loc'[d] = loc[d]
  BY LocalsKept
<1>2. SUFFICES ASSUME NEW d \in Reading', NEW e \in Reading', d # e, loc'[d].rd = loc'[e].rd
               PROVE  d \in shared' /\ e \in shared'
  BY DEF Apart
<1>3. d \in Client /\ e \in Client
  BY DEF Reading
<1>4. CASE d \in Reading /\ e \in Reading
  <2>1. loc[d].rd = loc[e].rd
    BY <1>1, <1>2, <1>3, ReadersAfter
  <2>2. d \in shared /\ e \in shared
    BY <1>2, <1>4, <2>1 DEF Apart
  <2>3. UNCHANGED shared \/ Place(c) \/ CloseStore(c)
    BY DEF Thread, Quiet, Opens, Connect, HeadersReady, LoadLength, Sendfile, TestActive, InputReady, Avail,
           WriteFails, CloseLoad, Scan, ScanFails, Mark, Write1, Write2, historyVars
  <2>4. CASE Place(c)
    BY <2>2, <2>4 DEF Place
  <2>5. CASE CloseStore(c)
    <3>1. c \notin Reading'
      BY <2>5, GoneEffect DEF Reading
    <3>. QED BY <1>2, <2>2, <2>5, <3>1 DEF CloseStore
  <2>. QED BY <2>2, <2>3, <2>4, <2>5
<1>5. CASE d \notin Reading \/ e \notin Reading
  <2>1. /\ Place(c) /\ (d = c \/ e = c)
        /\ \A x \in Reading' \ {c} : x \in Reading
    BY <1>2, <1>3, <1>5, ReadersAfter
  <2>. DEFINE others == {x \in Reading \ {c} : loc[x].rd = loc[c].rd}
  <2>2. shared' = IF others = {} THEN shared ELSE shared \cup others \cup {c}
    BY <2>1 DEF Place
  <2>3. \A x \in {d, e} \ {c} : x \in others
    BY <1>1, <1>2, <1>3, <2>1, ReadersAfter
  <2>. HIDE DEF others
  <2>. QED BY <1>2, <2>1, <2>2, <2>3
<1>. QED BY <1>4, <1>5
(* What a client that nobody overtook is owed, after another client's step. *)
LEMMA OthersFine ==
  ASSUME Types, RingTypes, Owners, Apart, Served, NEW c \in Client, Thread(c), NEW d \in Safe', d # c
  PROVE  Fine(d)'
<1>1. d \in Safe /\ d \in Client
  BY ReadersAfter DEF Safe, Reading
<1>2. Fine(d) /\ loc[d].rd \in Descriptor
  BY <1>1, PlaceTyped DEF Served, Safe, Reading
<1>3. loc'[d] = loc[d] /\ pc'[d] = pc[d]
  BY <1>1, LocalsKept
<1>4. rpos'[d] = rpos[d] /\ rb'.pwrite = rb.pwrite /\ rb'.data = rb.data /\ UNCHANGED <<written, piece>>
  BY <1>1, ThreadRing
<1>5. rb'.pread[loc[d].rd] = rb.pread[loc[d].rd]
  <2>1. SUFFICES ASSUME loc[d].rd = loc[c].rd, Moves(c) PROVE FALSE
    BY <1>2, ThreadRing
  <2>2. CASE pc[c] = "place"
    <3>1. Place(c)
      BY <2>2 DEF Thread, Quiet, Opens, Connect, HeadersReady, LoadLength, Sendfile, TestActive, InputReady,
                  Avail, WriteFails, CloseLoad, Scan, ScanFails, Mark, Write1, Write2, CloseStore
    <3>2. d \in {x \in Reading \ {c} : loc[x].rd = loc[c].rd}
      BY <1>1, <2>1 DEF Safe
    <3>3. d \in shared'
      BY <3>1, <3>2 DEF Place
    <3>. QED BY <3>3 DEF Safe
  <2>3. CASE pc[c] \in {"write1", "write2"}
    <3>1. c \in Reading
      BY <1>1, <2>1, <2>3 DEF Safe, Reading
    <3>. QED BY <1>1, <2>1, <3>1 DEF Apart, Safe
  <2>. QED BY <2>1, <2>2, <2>3 DEF Moves
<1>. QED BY <1>2, <1>3, <1>4, <1>5 DEF Fine, Owed, Room, Aim, Left

(* A write() of such a client. *)
LEMMA WriteFine ==
  ASSUME Types, RingTypes, Owners, NEW c \in Reading, Fine(c), Thread(c), Write1(c) \/ Write2(c)
  PROVE  Owed(c)' /\ Room(c)' /\ Aim(c)' /\ UNCHANGED damaged
<1>. DEFINE rd == loc[c].rd
            p  == rb.pread[rd]
            w  == rb.pwrite
<1>0. c \in Client /\ rd # NoDescriptor
  BY DEF Reading
<1>1. /\ rd \in Descriptor /\ p \in Position /\ w \in Position /\ Left(c) \in 0 .. Size - 1
      /\ Left(c) = Ahead(p, w) /\ written \in Nat /\ rpos \in [Client -> Nat] /\ piece.filled \in Nat
      /\ loc[c].todo \in 0 .. Size /\ loc[c].split \in 0 .. Size
  BY <1>0, PlaceTyped, PieceAssumption DEF RingTypes, Left
<1>2. PICK n : SentSome(c, n)
  BY <1>0, WriteEffect
<1>3. /\ pc[c] \in {"write1", "write2"} /\ UNCHANGED <<written, piece>>
      /\ pc[c] = "write1" => loc[c].split = Size - p /\ loc[c].split < loc[c].todo
      /\ pc[c] = "write2" => p + loc[c].todo <= Size
      /\ loc[c].todo <= Left(c) /\ rpos[c] + Left(c) = written
      /\ \A i \in 0 .. Left(c) - 1 : rb.data[(p + i) % Size] = rpos[c] + i
  <2>1. UNCHANGED <<written, piece>> /\ pc[c] \in {"write1", "write2"}
    BY DEF Write1, Write2, Thread
  <2>. QED BY <2>1 DEF Fine, Owed, Aim
<1>4. n \in Nat /\ n >= 1 /\ n <= loc[c].todo /\ p + n <= Size /\ n \in 0 .. Left(c)
  <2>1. n \in 1 .. Most(c)
    BY <1>2 DEF SentSome
  <2>2. CASE pc[c] = "write1"
    BY <1>1, <1>3, <2>1, <2>2, SizeAssumption DEF Most, Position
  <2>3. CASE pc[c] = "write2"
    BY <1>1, <1>3, <2>1, <2>3, SizeAssumption DEF Most, Position
  <2>. QED BY <1>3, <2>2, <2>3
<1>. DEFINE q == (p + n) % Size
<1>5. /\ rb'.pread[rd] = q /\ rb'.pwrite = w /\ rb'.data = rb.data /\ loc'[c].rd = rd
      /\ rpos' = [rpos EXCEPT ![c] = Smaller(rpos[c] + n, written)]
      /\ damaged' = IF Faithful(c, n) THEN damaged ELSE damaged \cup {c}
      /\ pc'[c] \in {"test", "write2"}
      /\ pc'[c] = "write2" => /\ pc[c] = "write1" /\ n = loc[c].split
                              /\ loc'[c].todo = loc[c].todo - n
  BY <1>0, <1>2 DEF SentSome
<1>6. q \in Position /\ Ahead(q, w) = Left(c) - n
  BY <1>1, <1>4, AheadSent
<1>7. Left(c)' = Left(c) - n
  BY <1>5, <1>6 DEF Left
<1>8. rpos'[c] = rpos[c] + n /\ rpos[c] \in Nat
  <2>1. rpos[c] \in Nat
    BY <1>0, <1>1
  <2>2. Smaller(rpos[c] + n, written) = rpos[c] + n
    BY <1>1, <1>3, <1>4, <2>1 DEF Smaller
  <2>. QED BY <1>0, <1>1, <1>5, <2>1, <2>2
<1>9. Owed(c)'
  <2>1. ASSUME NEW i \in 0 .. Left(c) - n - 1 PROVE rb'.data[(q + i) % Size] = (rpos[c] + n) + i
    <3>1. n + i \in 0 .. Left(c) - 1 /\ i \in Nat /\ n + i < Size /\ (rpos[c] + n) + i = rpos[c] + (n + i)
      BY <1>1, <1>4, <1>8, SizeAssumption
    <3>2. (q + i) % Size = (p + (n + i)) % Size
      BY <1>1, <1>4, <3>1, CellSent
    <3>. QED BY <1>3, <1>5, <3>1, <3>2
  <2>2. (rpos[c] + n) + (Left(c) - n) = written
    BY <1>1, <1>3, <1>4, <1>8
  <2>. HIDE DEF q
  <2>. QED BY <1>3, <1>5, <1>7, <1>8, <2>1, <2>2 DEF Owed
<1>10. Room(c)'
  <2>1. written + piece.filled - rpos[c] < Size
    BY DEF Fine, Room
  <2>2. written + piece.filled - (rpos[c] + n) < Size
    BY <1>1, <1>4, <1>8, <2>1, SizeAssumption
  <2>. QED BY <1>3, <1>8, <2>2 DEF Room
<1>11. Aim(c)'
  <2>1. CASE pc'[c] = "test"
    BY <2>1 DEF Aim
  <2>2. CASE pc'[c] = "write2"
    <3>1. n = Size - p /\ loc'[c].todo = loc[c].todo - n
      BY <1>3, <1>5, <2>2
    <3>2. n \in 0 .. Size /\ p + n = Size
      BY <1>1, <1>4, <3>1, SizeAssumption DEF Position
    <3>3. q = 0
      BY <1>1, <3>2, WrapCell, SizeAssumption
    <3>. HIDE DEF q
    <3>4. loc'[c].todo <= Left(c)' /\ 0 + loc'[c].todo <= Size
      <4>1. /\ loc[c].todo \in Nat /\ Left(c) \in Nat /\ n \in Nat /\ Size \in Nat
            /\ loc[c].todo <= Left(c) /\ loc[c].todo <= Size
        BY <1>1, <1>3, <1>4, SizeAssumption
      <4>2. loc[c].todo - n <= Left(c) - n /\ 0 + (loc[c].todo - n) <= Size
        BY <4>1
      <4>. QED BY <1>7, <3>1, <4>2
    <3>. QED BY <1>5, <2>2, <3>3, <3>4 DEF Aim
  <2>. QED BY <1>5, <2>1, <2>2
<1>12. Faithful(c, n)
  <2>1. ASSUME NEW i \in 0 .. n - 1 PROVE p + i < Size /\ rb.data[p + i] = rpos[c] + i
    <3>1. i \in 0 .. Size /\ i \in 0 .. Left(c) - 1 /\ p + i < Size
      BY <1>1, <1>4, SizeAssumption DEF Position
    <3>2. (p + i) % Size = p + i
      BY <1>1, <3>1, WrapCell
    <3>. QED BY <1>3, <3>1, <3>2
  <2>. QED BY <2>1 DEF Faithful
<1>. QED BY <1>5, <1>9, <1>10, <1>11, <1>12

(* And its other steps. *)
LEMMA SelfFine ==
  ASSUME Types, RingTypes, Owners, Served, NEW c \in Client, Thread(c), c \in Safe' PROVE Fine(c)'
<1>0. /\ c \in Reading' /\ loc'[c].rd = loc[c].rd /\ loc[c].rd \in Descriptor /\ loc[c].rd # NoDescriptor
      /\ c \in Reading \/ Place(c)
  <2>1. c \in Reading'
    BY DEF Safe
  <2>. QED BY <2>1, ReadersAfter DEF Reading
<1>1. /\ rb.pread[loc[c].rd] \in Position /\ rb.pwrite \in Position /\ Left(c) \in 0 .. Size - 1
      /\ written \in Nat /\ rpos \in [Client -> Nat] /\ piece.filled \in 0 .. MaxPiece
      /\ rb'.pwrite = rb.pwrite /\ rb'.data = rb.data /\ UNCHANGED <<written, piece>>
      /\ ~ Moves(c) => rb'.pread[loc[c].rd] = rb.pread[loc[c].rd]
  BY <1>0, PlaceTyped, ThreadRing DEF RingTypes
<1>2. CASE Place(c)
  <2>1. /\ rb'.pread[loc[c].rd] = rb.pwrite /\ pc'[c] = "test" /\ rpos'[c] = written
    BY <1>1, <1>2, PlaceEffect
  <2>2. Left(c)' = 0
    BY <1>0, <1>1, <2>1, AheadRange DEF Left
  <2>3. written + piece.filled - written < Size
    BY <1>1, PieceAssumption, SizeAssumption
  <2>. QED BY <1>1, <2>1, <2>2, <2>3 DEF Fine, Owed, Room, Aim
<1>3. CASE Write1(c) \/ Write2(c)
  <2>1. c \in Safe
    <3>1. UNCHANGED <<lapped, shared>> /\ pc[c] # "place"
      BY <1>3 DEF Write1, Write2
    <3>. QED BY <1>0, <3>1 DEF Safe, Place
  <2>. QED BY <2>1, <1>3, WriteFine DEF Safe, Served, Fine
<1>4. CASE TestActive(c) \/ InputReady(c) \/ WriteFails(c)
  <2>1. /\ pc[c] \in {"test", "live", "write1", "write2"} /\ pc'[c] \in {"live", "avail", "close"}
        /\ UNCHANGED <<rpos, lapped, shared>>
    BY <1>4, LoopEffect DEF historyVars
  <2>2. c \in Safe /\ ~ WriteFails(c)
    <3>1. ~ Place(c)
      BY <2>1 DEF Place
    <3>2. pc'[c] # "close"
      BY <1>0 DEF Reading
    <3>. QED BY <1>0, <2>1, <3>1, <3>2 DEF Safe, WriteFails, Types
  <2>3. ~ Moves(c)
    BY <1>4, <2>2 DEF Moves, TestActive, InputReady
  <2>. QED BY <1>0, <1>1, <2>1, <2>2, <2>3 DEF Served, Fine, Owed, Room, Aim, Left
<1>5. CASE Avail(c)
  <2>. DEFINE p == rb.pread[loc[c].rd]
  <2>1. /\ Locals(c, loc[c].rd, loc[c].seen, Available(c), Split(WithActive.pread[loc[c].rd], Available(c)))
        /\ pc[c] = "avail" /\ UNCHANGED <<rpos, lapped, shared>>
        /\ pc'[c] = IF Available(c) = 0 THEN "test"
                    ELSE IF Split(WithActive.pread[loc[c].rd], Available(c)) > 0 THEN "write1" ELSE "write2"
    BY <1>5, AvailEffect DEF historyVars
  <2>2. Available(c) = Left(c) /\ WithActive.pread[loc[c].rd] = p
    BY <1>0, AvailableTyped
  <2>3. /\ loc'[c].todo = Left(c) /\ loc'[c].split = Split(p, Left(c))
        /\ pc'[c] = IF Left(c) = 0 THEN "test" ELSE IF Split(p, Left(c)) > 0 THEN "write1" ELSE "write2"
    BY <2>1, <2>2 DEF Locals
  <2>4. c \in Safe /\ rb'.pread[loc[c].rd] = p
    BY <1>0, <1>1, <2>1 DEF Safe, Place, Moves
  <2>5. /\ Split(p, Left(c)) > 0 => Split(p, Left(c)) = Size - p /\ Size - p < Left(c)
        /\ ~ (Split(p, Left(c)) > 0) => p + Left(c) <= Size
    BY <1>1, SizeAssumption DEF Split, Position
  <2>6. Left(c)' = Left(c)
    BY <1>0, <1>1, <2>4 DEF Left
  <2>7. Fine(c)
    BY <2>4 DEF Served
  <2>8. Aim(c)'
    BY <1>0, <1>1, <2>3, <2>4, <2>5, <2>6, SizeAssumption DEF Aim
  <2>. QED BY <1>0, <1>1, <2>1, <2>4, <2>6, <2>7, <2>8 DEF Fine, Owed, Room
<1>6. CASE Connect(c) \/ HeadersReady(c) \/ LoadLength(c) \/ Sendfile(c)
  BY <1>0, <1>6, FrontEffect
<1>7. CASE Scan(c) \/ ScanFails(c)
  BY <1>0, <1>7 DEF Owners, Holding, Scan, ScanFails
<1>8. CASE Mark(c) \/ CloseLoad(c)
  <2>1. pc'[c] \in {"place", "unmark"}
    BY <1>8 DEF Mark, CloseLoad, Types
  <2>. QED BY <1>0, <2>1 DEF Reading
<1>9. CASE CloseStore(c)
  BY <1>0, <1>9, GoneEffect DEF Reading
<1>. QED BY <1>2, <1>3, <1>4, <1>5, <1>6, <1>7, <1>8, <1>9 DEF Thread, Quiet, Opens

LEMMA ThreadServed ==
  ASSUME Types, RingTypes, Owners, Apart, Served, NEW c \in Client, Thread(c) PROVE Served'
BY OthersFine, SelfFine DEF Served
(* Nobody else is damaged. *)
LEMMA ThreadCaused ==
  ASSUME Types, RingTypes, Owners, Served, Caused, NEW c \in Client, Thread(c) PROVE Caused'
<1>1. CASE Write1(c) \/ Write2(c)
  <2>1. UNCHANGED <<lapped, shared>> /\ pc[c] \in {"write1", "write2"}
    BY <1>1 DEF Write1, Write2
  <2>2. PICK n : SentSome(c, n)
    BY <1>1, WriteEffect
  <2>3. CASE loc[c].rd = NoDescriptor
    BY <2>1, <2>2, <2>3 DEF Caused, SentSome
  <2>4. CASE loc[c].rd # NoDescriptor
    <3>1. c \in Reading /\ damaged' \subseteq damaged \cup {c}
      BY <2>1, <2>2, <2>4 DEF Reading, SentSome
    <3>2. CASE c \in Safe
      BY <1>1, <2>1, <3>1, <3>2, WriteFine DEF Served, Caused
    <3>3. CASE c \notin Safe
      BY <2>1, <3>1, <3>3 DEF Safe, Caused
    <3>. QED BY <3>2, <3>3
  <2>. QED BY <2>3, <2>4
<1>2. CASE CloseStore(c)
  BY <1>2 DEF CloseStore, Caused
<1>3. CASE Opens(c)
  BY <1>3 DEF Opens, Scan, ScanFails, Mark, Place, GoLive, historyVars, Caused
<1>4. CASE Quiet(c)
  BY <1>4 DEF Quiet, Connect, HeadersReady, LoadLength, Sendfile, TestActive, InputReady, Avail, WriteFails,
              CloseLoad, historyVars, Caused
<1>. QED BY <1>1, <1>2, <1>3, <1>4 DEF Thread
-----------------------------------------------------------------------------
(* A step of a client that is not in the middle of an update of readers. *)
LEMMA ApartFromUpdates ==
  ASSUME Types, Orderly, NEW c \in Client, rb'.readers = rb.readers, shared' = shared,
         pc[c] \notin {"mark", "unmark"}, pc'[c] \notin {"mark", "unmark"},
         \A d \in Client \ {c} : loc'[d] = loc[d] /\ pc'[d] = pc[d],
         c \in Marked' => c \in Marked /\ loc'[c].rd = loc[c].rd
  PROVE  Orderly'
<1>1. Updating' = Updating /\ c \notin Updating
  BY DEF Updating
<1>2. \A d \in Marked' : d \in Marked /\ loc'[d].rd = loc[d].rd
  BY DEF Marked
<1>. QED BY <1>1, <1>2 DEF Orderly, Updating

LEMMA ThreadOrderly ==
  ASSUME Types, RingTypes, Owners, overlapped \/ Orderly, NEW c \in Client, Thread(c)
  PROVE  (overlapped \/ Orderly)'
<1>1. overlapped => overlapped'
  BY DEF Thread, Quiet, Opens, Connect, HeadersReady, LoadLength, Sendfile, TestActive, InputReady, Avail,
         WriteFails, CloseLoad, Scan, ScanFails, Mark, Place, Write1, Write2, CloseStore, historyVars
<1>2. SUFFICES ASSUME Orderly, ~ overlapped' PROVE Orderly'
  BY <1>1
<1>3. \A d \in Client \ {c} : loc'[d] = loc[d] /\ pc'[d] = pc[d]
  BY LocalsKept
<1>4. CASE (Connect(c) \/ HeadersReady(c) \/ LoadLength(c) \/ Sendfile(c)) /\ UNCHANGED rb
  <2>1. /\ pc[c] \in {"new", "wait", "load", "send"} /\ pc'[c] \in {"wait", "load", "send", "open", "done"}
        /\ shared' = shared
    BY <1>4, FrontEffect
  <2>2. c \notin Marked'
    BY <2>1 DEF Marked, Holding
  <2>. QED BY <1>2, <1>3, <1>4, <2>1, <2>2, ApartFromUpdates
<1>5. CASE (TestActive(c) \/ InputReady(c) \/ WriteFails(c)) /\ UNCHANGED rb
  <2>1. /\ pc[c] \in {"test", "live", "write1", "write2"} /\ pc'[c] \in {"live", "avail", "close"}
        /\ loc'[c].rd = loc[c].rd /\ shared' = shared
    BY <1>5, LoopEffect DEF historyVars
  <2>2. c \in Marked' => c \in Marked
    BY <2>1 DEF Marked, Holding
  <2>. QED BY <1>2, <1>3, <1>5, <2>1, <2>2, ApartFromUpdates
<1>6. CASE Avail(c) /\ UNCHANGED rb
  <2>1. /\ pc[c] = "avail" /\ pc'[c] \in {"test", "write1", "write2"}
        /\ loc'[c].rd = loc[c].rd /\ shared' = shared
    BY <1>6, AvailEffect DEF Locals, historyVars
  <2>2. c \in Marked' => c \in Marked
    BY <2>1 DEF Marked, Holding
  <2>. QED BY <1>2, <1>3, <1>6, <2>1, <2>2, ApartFromUpdates
<1>7. CASE Write1(c) \/ Write2(c)
  <2>1. PICK n : SentSome(c, n)
    BY <1>7, WriteEffect
  <2>2. /\ pc[c] \in {"write1", "write2"} /\ pc'[c] \in {"test", "write2"} /\ rb'.readers = rb.readers
        /\ loc'[c].rd = loc[c].rd /\ shared' = shared
    BY <1>7, <2>1 DEF SentSome, Write1, Write2
  <2>3. c \in Marked' => c \in Marked
    BY <2>2 DEF Marked, Holding
  <2>. QED BY <1>2, <1>3, <2>2, <2>3, ApartFromUpdates
<1>8. CASE ScanFails(c)
  <2>1. /\ pc[c] = "open" /\ pc'[c] = "test" /\ shared' = shared /\ rb' = rb
        /\ loc'[c].rd = loc[c].rd
    BY <1>8, LiveEffect DEF ScanFails, Locals
  <2>2. loc[c].rd = NoDescriptor
    BY <2>1 DEF Owners, Holding
  <2>3. c \notin Marked'
    BY <2>1, <2>2 DEF Marked
  <2>. QED BY <1>2, <1>3, <2>1, <2>3, ApartFromUpdates
<1>9. CASE Place(c)
  <2>1. /\ pc[c] = "place" /\ pc'[c] = "test" /\ rb'.readers = rb.readers
        /\ loc'[c].rd = loc[c].rd /\ loc[c].rd # NoDescriptor
    BY <1>9, PlaceEffect DEF Locals
  <2>2. c \in Marked
    BY <2>1 DEF Marked, Holding
  <2>. DEFINE others == {d \in Reading \ {c} : loc[d].rd = loc[c].rd}
  <2>3. others = {}
    <3>1. Reading \subseteq Marked
      BY DEF Reading, Marked, Holding
    <3>. QED BY <1>2, <2>2, <3>1 DEF Orderly
  <2>4. shared' = IF others = {} THEN shared ELSE shared \cup others \cup {c}
    BY <1>9 DEF Place
  <2>. HIDE DEF others
  <2>. QED BY <1>2, <1>3, <2>1, <2>2, <2>3, <2>4, ApartFromUpdates
<1>10. CASE Scan(c)
  <2>1. PICK rd \in Lowest(rb.readers) : Locals(c, rd, rb.readers, loc[c].todo, loc[c].split)
    BY <1>10, ScanEffect
  <2>2. /\ pc[c] = "open" /\ pc'[c] = "mark" /\ rb' = rb /\ shared' = shared
        /\ loc'[c].rd \notin rb.readers /\ loc'[c].seen = rb.readers /\ Updating = {}
    BY <1>2, <1>10, <2>1, ScanEffect DEF Locals, Lowest
  <2>3. Updating' = {c}
    BY <1>3, <2>2 DEF Updating
  <2>4. \A d \in Marked' : d \in Marked /\ loc'[d].rd = loc[d].rd
    BY <1>3, <2>2 DEF Marked
  <2>5. \A d \in Client : pc'[d] = "mark" => d = c
    BY <2>3 DEF Updating
  <2>. QED BY <1>2, <2>2, <2>3, <2>4, <2>5 DEF Orderly
<1>11. CASE CloseLoad(c) /\ UNCHANGED rb
  <2>1. Locals(c, loc[c].rd, IF Mark(c) THEN {} ELSE rb.readers, loc[c].todo, loc[c].split)
    BY <1>11, SeenEffect
  <2>2. pc[c] = "close" /\ pc'[c] = "unmark" /\ shared' = shared /\ Updating = {} /\ ~ Mark(c)
    BY <1>2, <1>11 DEF CloseLoad, Mark, Types
  <2>3. loc'[c].rd = loc[c].rd /\ loc'[c].seen = rb.readers
    BY <2>1, <2>2 DEF Locals
  <2>4. Updating' = {c}
    BY <1>3, <2>2 DEF Updating
  <2>5. \A d \in Marked' : d \in Marked /\ loc'[d].rd = loc[d].rd
    BY <1>3, <2>2, <2>3 DEF Marked, Holding
  <2>6. \A d \in Client : pc'[d] # "mark"
    BY <2>2, <2>4 DEF Updating
  <2>. QED BY <1>2, <1>11, <2>2, <2>3, <2>4, <2>5, <2>6 DEF Orderly
<1>12. CASE Mark(c)
  <2>1. pc[c] = "mark" /\ pc'[c] = "place" /\ shared' = shared
    BY <1>12 DEF Mark, Types, historyVars
  <2>2. c \in Updating /\ Updating' = {}
    BY <1>2, <1>3, <2>1 DEF Updating, Orderly
  <2>3. loc[c].rd \notin rb.readers /\ loc[c].seen = rb.readers
    BY <1>2, <2>1, <2>2 DEF Orderly
  <2>4. rb'.readers = rb.readers \cup {loc[c].rd}
    BY <1>12, <2>3, MarkTyped
  <2>5. loc'[c].rd = loc[c].rd
    BY <1>12, SeenEffect DEF Locals
  <2>6. \A d \in Marked' : loc'[d].rd = loc[d].rd /\ (d \in Marked \/ d = c)
    BY <1>3, <2>5 DEF Marked
  <2>7. \A d \in Client : pc'[d] # "mark"
    BY <2>2 DEF Updating
  <2>. QED BY <1>2, <2>1, <2>2, <2>3, <2>4, <2>6, <2>7 DEF Orderly
<1>13. CASE CloseStore(c)
  <2>1. pc[c] = "unmark" /\ pc'[c] = "done" /\ shared' = shared \ {c}
    BY <1>13, GoneEffect DEF CloseStore
  <2>2. c \in Updating /\ Updating' = {}
    BY <1>2, <1>3, <2>1 DEF Updating, Orderly
  <2>3. loc[c].seen = rb.readers
    BY <1>2, <2>2 DEF Orderly
  <2>4. rb'.readers = ToggleBit(rb.readers, loc[c].rd)
    BY <1>13, <2>3, CloseTyped
  <2>5. \A d \in Marked' : d # c /\ d \in Marked /\ loc'[d].rd = loc[d].rd
    BY <1>3, <2>1 DEF Marked, Holding
  <2>6. ASSUME NEW d \in Marked, d # c PROVE loc[d].rd \in rb'.readers
    <3>1. loc[d].rd \in rb.readers /\ loc[d].rd # NoDescriptor
      BY <1>2 DEF Orderly, Marked
    <3>2. loc[d].rd # loc[c].rd
      <4>1. SUFFICES ASSUME loc[d].rd = loc[c].rd PROVE FALSE
        OBVIOUS
      <4>2. c \in Marked
        BY <2>1, <3>1, <4>1 DEF Marked, Holding
      <4>. QED BY <1>2, <2>6, <4>1, <4>2 DEF Orderly
    <3>. QED BY <2>4, <3>1, <3>2 DEF ToggleBit
  <2>7. \A d \in Client : pc'[d] # "mark"
    BY <2>2 DEF Updating
  <2>. QED BY <1>2, <2>1, <2>2, <2>5, <2>6, <2>7 DEF Orderly
<1>. QED BY <1>4, <1>5, <1>6, <1>7, <1>8, <1>9, <1>10, <1>11, <1>12, <1>13 DEF Thread, Quiet, Opens

LEMMA ThreadStep == ASSUME Types, RingInv, NEW c \in Client, Thread(c) PROVE RingInv'
<1>. USE DEF RingInv
<1>1. RingTypes' /\ Owners'
  BY ThreadTyped
<1>2. Apart' /\ Served' /\ Caused' /\ (overlapped \/ Orderly)'
  BY ThreadApart, ThreadServed, ThreadCaused, ThreadOrderly
<1>3. Copied'
  BY ThreadRing DEF Copied
<1>. QED BY <1>1, <1>2, <1>3
(* The two steps of ringbuffer_write. *)
LEMMA FillTyped ==
  ASSUME NEW d \in [Position -> Int], NEW pos \in Position, NEW k \in Nat, NEW n \in Nat
  PROVE  Fill(d, pos, k, n) \in [Position -> Int]
BY DEF Fill, Position

LEMMA Filled ==
  ASSUME NEW b \in ringbuffer, NEW k \in Nat, NEW n \in Nat
  PROVE  LET a == [b EXCEPT !.data = Fill(b.data, b.pwrite, k, n)]
         IN  /\ a \in ringbuffer /\ a.readers = b.readers /\ a.pread = b.pread /\ a.pwrite = b.pwrite
             /\ \A q \in Position : a.data[q] = IF b.pwrite <= q /\ q < b.pwrite + n
                                                THEN k + (q - b.pwrite) ELSE b.data[q]
<1>. DEFINE d == Fill(b.data, b.pwrite, k, n)
<1>1. b.pwrite \in Position /\ b.data \in [Position -> Int]
  BY RingFields
<1>2. d \in [Position -> Int]
  BY <1>1, FillTyped
<1>3. \A q \in Position : d[q] = IF b.pwrite <= q /\ q < b.pwrite + n THEN k + (q - b.pwrite) ELSE b.data[q]
  BY DEF Fill
<1>. HIDE DEF d
<1>4. LET a == [b EXCEPT !.data = d]
      IN  /\ a \in ringbuffer /\ a.readers = b.readers /\ a.pread = b.pread /\ a.pwrite = b.pwrite
          /\ a.data = d
  BY <1>2 DEF ringbuffer
<1>. QED BY <1>3, <1>4 DEF d

LEMMA Stored ==
  ASSUME NEW b \in ringbuffer, NEW w \in Position
  PROVE  LET a == [b EXCEPT !.pwrite = w]
         IN  /\ a \in ringbuffer /\ a.readers = b.readers /\ a.pread = b.pread /\ a.data = b.data
             /\ a.pwrite = w
BY DEF ringbuffer

(* What neither of them touches. *)
LEMMA WriterKeeps ==
  ASSUME RingInv, rb'.readers = rb.readers, UNCHANGED <<pc, loc, shared, overlapped>>
  PROVE  Owners' /\ Apart' /\ (overlapped \/ Orderly)' /\ Reading' = Reading
<1>. USE DEF RingInv
<1>1. Reading' = Reading /\ Updating' = Updating /\ Marked' = Marked
  BY DEF Reading, Updating, Marked
<1>. QED BY <1>1 DEF Owners, Apart, Orderly

LEMMA FillStays == ASSUME RingInv, RingFill PROVE RingInv'
<1>. USE DEF RingInv
<1>. DEFINE w == rb.pwrite
<1>0. /\ rb \in ringbuffer /\ w \in Position /\ written \in Nat /\ rpos \in [Client -> Nat]
      /\ piece.todo \in 0 .. MaxPiece /\ piece.filled = 0
      /\ UNCHANGED <<pc, loc, rpos, written, active, headless, excused, damaged, shared, overlapped>>
  BY RingFields DEF RingTypes, RingFill, clientVars, stopVars
<1>1. PICK len \in IF piece.todo > 0 THEN {piece.todo} ELSE 1 .. MaxPiece :
        LET split == Split(rb.pwrite, len)
            n     == IF split > 0 THEN split ELSE len
        IN  /\ rb' = [rb EXCEPT !.data = Fill(@, rb.pwrite, written, n)]
            /\ piece' = [filled |-> n, todo |-> len - n]
            /\ lapped' = lapped \cup {c \in Reading : written + n - rpos[c] >= Size}
  BY DEF RingFill
<1>. DEFINE n == IF Split(w, len) > 0 THEN Split(w, len) ELSE len
<1>2. /\ rb' = [rb EXCEPT !.data = Fill(rb.data, w, written, n)]
      /\ piece' = [filled |-> n, todo |-> len - n]
      /\ lapped' = lapped \cup {c \in Reading : written + n - rpos[c] >= Size}
  BY <1>1
<1>3. n \in 1 .. MaxPiece /\ n <= len /\ len \in 1 .. MaxPiece /\ w + n <= Size /\ MaxPiece < Size
  <2>1. len \in 1 .. MaxPiece /\ MaxPiece \in Nat
    BY <1>0, <1>1, PieceAssumption, SizeAssumption
  <2>. QED BY <1>0, <2>1, PieceAssumption, SizeAssumption DEF Split, Position
<1>. HIDE DEF n
<1>4. /\ rb' \in ringbuffer /\ rb'.readers = rb.readers /\ rb'.pread = rb.pread /\ rb'.pwrite = w
      /\ \A q \in Position : rb'.data[q] = IF w <= q /\ q < w + n THEN written + (q - w) ELSE rb.data[q]
  <2>1. n \in Nat
    BY <1>3, PieceAssumption, SizeAssumption
  <2>. QED BY <1>0, <1>2, <2>1, Filled
<1>5. /\ piece'.filled = n /\ piece'.todo = len - n
      /\ piece' \in [filled : 0 .. MaxPiece, todo : 0 .. MaxPiece]
  <2>1. n \in 0 .. MaxPiece /\ len - n \in 0 .. MaxPiece
    BY <1>3, PieceAssumption, SizeAssumption
  <2>. QED BY <1>2, <2>1
<1>6. RingTypes'
  BY <1>0, <1>2, <1>4, <1>5 DEF RingTypes, Reading
<1>7. Owners' /\ Apart' /\ (overlapped \/ Orderly)' /\ Reading' = Reading
  BY <1>0, <1>4, WriterKeeps
<1>8. Copied'
  <2>1. ASSUME NEW i \in 0 .. n - 1 PROVE rb'.data[w + i] = written + i
    <3>1. w + i \in Position /\ w <= w + i /\ w + i < w + n /\ written + ((w + i) - w) = written + i
      BY <1>0, <1>3, PieceAssumption, SizeAssumption DEF Position
    <3>. QED BY <1>4, <3>1
  <2>. QED BY <1>0, <1>3, <1>4, <1>5, <2>1 DEF Copied
<1>9. Caused'
  BY <1>0, <1>2 DEF Caused
<1>10. ASSUME NEW c \in Safe' PROVE Fine(c)'
  <2>1. c \in Reading /\ c \in Client /\ c \in Safe /\ ~ (written + n - rpos[c] >= Size)
    BY <1>0, <1>2, <1>7 DEF Safe, Reading
  <2>. DEFINE p == rb.pread[loc[c].rd]
  <2>2. p \in Position /\ Left(c) \in 0 .. Size - 1 /\ Left(c) = Ahead(p, w) /\ rpos[c] \in Nat
    BY <1>0, <2>1, PlaceTyped DEF Reading, Left
  <2>3. Fine(c)
    BY <2>1 DEF Served
  <2>4. Left(c)' = Left(c)
    BY <1>0, <1>4 DEF Left
  <2>5. ASSUME NEW i \in 0 .. Left(c) - 1 PROVE rb'.data[(p + i) % Size] = rpos[c] + i
    <3>. DEFINE q == (p + i) % Size
    <3>1. Ahead(p, w) + n < Size
      <4>1. rpos[c] + Left(c) = written
        BY <2>3 DEF Fine, Owed
      <4>. HIDE DEF p
      <4>. QED BY <1>0, <1>3, <2>1, <2>2, <4>1, PieceAssumption, SizeAssumption
    <3>2. n \in Nat
      BY <1>3, PieceAssumption, SizeAssumption
    <3>3. q \in Position /\ ~ (w <= q /\ q < w + n)
      BY <1>0, <2>2, <2>5, <3>1, <3>2, CellsAway
    <3>4. rb.data[q] = rpos[c] + i
      BY <2>3, <2>5 DEF Fine, Owed
    <3>. HIDE DEF q
    <3>5. rb'.data[q] = rpos[c] + i
      BY <1>4, <3>3, <3>4
    <3>. QED BY <3>5 DEF q
  <2>6. Owed(c)'
    BY <1>0, <1>4, <2>3, <2>4, <2>5 DEF Fine, Owed
  <2>7. Room(c)'
    BY <1>0, <1>3, <1>5, <2>1, <2>2, SizeAssumption DEF Room
  <2>8. Aim(c)'
    BY <1>0, <1>4, <2>3, <2>4 DEF Fine, Aim
  <2>. QED BY <2>6, <2>7, <2>8 DEF Fine
<1>. QED BY <1>6, <1>7, <1>8, <1>9, <1>10 DEF Served

LEMMA StoreStays == ASSUME RingInv, RingStore PROVE RingInv'
<1>. USE DEF RingInv
<1>. DEFINE w == rb.pwrite
            m == piece.filled
            v == (w + m) % Size
<1>0. /\ rb \in ringbuffer /\ w \in Position /\ written \in Nat /\ rpos \in [Client -> Nat]
      /\ piece \in [filled : 0 .. MaxPiece, todo : 0 .. MaxPiece] /\ m > 0 /\ MaxPiece \in 1 .. Size - 1
      /\ written' = written + m /\ piece' = [piece EXCEPT !.filled = 0]
      /\ rb' = [rb EXCEPT !.pwrite = v]
      /\ UNCHANGED <<pc, loc, rpos, active, headless, excused, damaged, lapped, shared, overlapped>>
  BY RingFields, PieceAssumption DEF RingTypes, RingStore, clientVars, stopVars, historyVars
<1>1. m \in 1 .. Size - 1 /\ m \in 0 .. Size /\ m \in Nat /\ m \in 0 .. MaxPiece
  BY <1>0, SizeAssumption
<1>2. /\ w + m <= Size
      /\ \A i \in 0 .. m - 1 : rb.data[w + i] = written + i
  BY <1>0 DEF Copied
<1>3. v \in Position
  BY <1>0, <1>1, WrapCell
<1>4. /\ rb' \in ringbuffer /\ rb'.readers = rb.readers /\ rb'.pread = rb.pread /\ rb'.data = rb.data
      /\ rb'.pwrite = v
  <2>. HIDE DEF v
  <2>. QED BY <1>0, <1>3, Stored
<1>. HIDE DEF v
<1>5. piece' \in [filled : 0 .. MaxPiece, todo : 0 .. MaxPiece] /\ piece'.filled = 0
  BY <1>0, SizeAssumption
<1>6. RingTypes'
  <2>1. \A c \in Client : rpos[c] <= written + m
    BY <1>0, <1>1 DEF RingTypes
  <2>2. written + m \in Nat
    BY <1>0, <1>1
  <2>. HIDE DEF m
  <2>. QED BY <1>0, <1>4, <1>5, <2>1, <2>2 DEF RingTypes
<1>7. Owners' /\ Apart' /\ (overlapped \/ Orderly)' /\ Reading' = Reading
  BY <1>0, <1>4, WriterKeeps
<1>8. Copied'
  BY <1>5 DEF Copied
<1>9. Caused'
  BY <1>0 DEF Caused
<1>10. ASSUME NEW c \in Safe' PROVE Fine(c)'
  <2>1. c \in Reading /\ c \in Client /\ c \in Safe
    BY <1>0, <1>7 DEF Safe, Reading
  <2>. DEFINE p == rb.pread[loc[c].rd]
  <2>2. p \in Position /\ Left(c) \in 0 .. Size - 1 /\ Left(c) = Ahead(p, w) /\ rpos[c] \in Nat
    BY <1>0, <2>1, PlaceTyped DEF Reading, Left
  <2>3. /\ rpos[c] + Left(c) = written /\ written + m - rpos[c] < Size
        /\ \A i \in 0 .. Left(c) - 1 : rb.data[(p + i) % Size] = rpos[c] + i
    BY <2>1 DEF Served, Fine, Owed, Room
  <2>4. Left(c) + m < Size
    BY <1>0, <1>1, <2>2, <2>3, SizeAssumption
  <2>5. Left(c)' = Left(c) + m
    <3>1. Ahead(p, w) + m < Size
      BY <2>2, <2>4
    <3>2. Ahead(p, (w + m) % Size) = Ahead(p, w) + m
      BY <1>0, <1>1, <2>2, <3>1, AheadStored
    <3>. QED BY <1>0, <1>4, <2>2, <3>2 DEF Left, v
  <2>6. ASSUME NEW i \in 0 .. Left(c) + m - 1 PROVE rb.data[(p + i) % Size] = rpos[c] + i
    <3>1. CASE i < Left(c)
      <4>1. i \in 0 .. Left(c) - 1
        BY <1>1, <2>2, <2>6, <3>1
      <4>. QED BY <2>3, <4>1
    <3>2. CASE ~ (i < Left(c))
      <4>. DEFINE j == i - Left(c)
      <4>0. j \in 0 .. m - 1 /\ j \in Nat /\ Left(c) \in Nat /\ i \in Nat /\ Left(c) + j = i
        BY <1>1, <2>2, <2>6, <3>2
      <4>1. /\ j \in 0 .. m - 1 /\ j \in Nat /\ Left(c) \in Nat /\ Left(c) + j < Size /\ Left(c) + j = i
            /\ w + j < Size /\ j \in 0 .. Size /\ written + j = rpos[c] + i
        <5>. HIDE DEF j, m, p, w
        <5>1. w + j < Size
          BY <1>0, <1>1, <1>2, <4>0, SizeAssumption DEF Position
        <5>2. Left(c) + j < Size /\ j \in 0 .. Size
          BY <1>1, <2>4, <4>0, SizeAssumption
        <5>3. written + j = rpos[c] + i
          BY <1>0, <2>2, <2>3, <4>0
        <5>. QED BY <4>0, <5>1, <5>2, <5>3
      <4>. HIDE DEF j
      <4>2. (p + Left(c)) % Size = w
        BY <1>0, <2>2, CellsAhead
      <4>3. (((p + Left(c)) % Size) + j) % Size = (p + (Left(c) + j)) % Size
        BY <2>2, <4>1, CellSent
      <4>4. (w + j) % Size = w + j
        BY <1>0, <4>1, WrapCell
      <4>5. (p + i) % Size = w + j
        BY <4>1, <4>2, <4>3, <4>4
      <4>. QED BY <1>2, <4>1, <4>5
    <3>. QED BY <3>1, <3>2
  <2>7. rpos[c] + (Left(c) + m) = written + m /\ written + m + 0 - rpos[c] < Size
    BY <1>0, <1>1, <2>2, <2>3
  <2>8. Owed(c)'
    <3>1. /\ rb'.pread[loc'[c].rd] = p /\ rb'.data = rb.data /\ rpos'[c] = rpos[c]
          /\ written' = written + m
      BY <1>0, <1>4
    <3>. HIDE DEF p, m
    <3>. QED BY <1>1, <2>2, <2>5, <2>6, <2>7, <3>1 DEF Owed
  <2>9. Room(c)'
    BY <1>0, <1>5, <2>7 DEF Room
  <2>10. Aim(c)'
    <3>1. loc[c].todo \in 0 .. Size /\ Aim(c)
      BY <2>1 DEF RingTypes, Served, Fine
    <3>2. loc[c].todo <= Left(c) => loc[c].todo <= Left(c) + m
      BY <1>1, <2>2, <3>1, SizeAssumption
    <3>. QED BY <1>0, <1>4, <2>5, <3>1, <3>2 DEF Aim
  <2>. QED BY <2>8, <2>9, <2>10 DEF Fine
<1>. QED BY <1>6, <1>7, <1>8, <1>9, <1>10 DEF Served

(* The steps that leave the ring buffer alone. *)
LEMMA OtherStays ==
  ASSUME RingInv, UNCHANGED <<rb, written, piece, clientVars, damaged, lapped, shared, overlapped>>,
         active' \in 0 .. Size, headless' \cup excused' \subseteq Client
  PROVE  RingInv'
<1>. USE DEF RingInv, clientVars
<1>1. Owners' /\ Apart' /\ (overlapped \/ Orderly)' /\ Reading' = Reading
  BY WriterKeeps
<1>2. RingTypes'
  BY DEF RingTypes
<1>3. \A c \in Client : Fine(c) => Fine(c)'
  BY DEF Fine, Owed, Room, Aim, Left
<1>4. Safe' = Safe /\ Safe \subseteq Client
  BY <1>1 DEF Safe, Reading
<1>. QED BY <1>1, <1>2, <1>3, <1>4 DEF Served, Copied, Caused

LEMMA RingStep == ASSUME CacheInv, RingInv, [Next]_vars PROVE RingInv'
<1>. USE DEF RingInv
<1>0. active \in 0 .. Size /\ headless \cup excused \subseteq Client /\ 0 \in 0 .. Size
  BY SizeAssumption DEF RingTypes
<1>1. ASSUME NEW s \in Serial, Arrive(s) PROVE RingInv'
  <2>1. excused' \subseteq Client
    BY <1>0, <1>1 DEF Arrive, BosPage, HeaderPage, DataPage
  <2>. QED BY <1>0, <1>1, <2>1, OtherStays DEF Arrive, ringVars
<1>2. CASE EndOfInput \/ Reset \/ Count \/ Store \/ Leave \/ Return
  BY <1>0, <1>2, OtherStays DEF EndOfInput, Reset, Count, Store, Leave, Return, ringVars, stopVars, historyVars
<1>3. CASE RingFill \/ RingStore
  BY <1>3, FillStays, StoreStays
<1>4. CASE Signal \/ Joined \/ UNCHANGED vars
  BY <1>0, <1>4, OtherStays DEF Signal, Joined, vars, ringVars, stopVars, historyVars
<1>5. ASSUME NEW c \in Client, Thread(c) PROVE RingInv'
  BY <1>5, ThreadStep DEF CacheInv
<1>. QED BY <1>1, <1>2, <1>3, <1>4, <1>5 DEF Next, Writer

LEMMA RingInit == ASSUME Init PROVE RingInv
<1>. USE DEF Init
<1>1. ringbuffer_init \in ringbuffer
  BY SizeAssumption DEF ringbuffer_init, ringbuffer, Position, Blank
<1>2. \A c \in Client : /\ loc[c].rd = NoDescriptor /\ loc[c].seen = {} /\ loc[c].todo = 0
                        /\ loc[c].split = 0 /\ pc[c] = "new" /\ rpos[c] = 0
  BY NewLocals
<1>3. 0 \in 0 .. Size /\ 1 \in 0 .. Size /\ 0 \in 0 .. MaxPiece
  BY SizeAssumption, PieceAssumption
<1>4. RingTypes
  <2>1. piece \in [filled : 0 .. MaxPiece, todo : 0 .. MaxPiece]
    BY <1>3 DEF NoPiece
  <2>. QED BY <1>1, <1>2, <1>3, <2>1 DEF RingTypes, Held
<1>5. Reading = {} /\ Updating = {} /\ Marked = {} /\ piece.filled = 0
  BY <1>2 DEF Reading, Updating, Marked, Holding, NoPiece
<1>6. Owners
  BY <1>2 DEF Owners
<1>7. Orderly
  BY <1>2, <1>5 DEF Orderly
<1>8. Copied /\ Apart /\ Served /\ Caused
  BY <1>5 DEF Copied, Apart, Served, Safe, Caused
<1>. QED BY <1>4, <1>6, <1>7, <1>8 DEF RingInv

LEMMA RingInvariance == Spec => []RingInv
<1>1. CacheInv /\ RingInv /\ [Next]_vars => RingInv'
  BY RingStep
<1>2. OggInv => CacheInv
  BY DEF OggInv
<1>3. Init => RingInv
  BY RingInit
<1>. QED BY <1>1, <1>2, <1>3, OggInvariance, PTL DEF Spec

(* oggstdin_body (ogg-stdin.c:160) sends from the ring buffer just the pages from the
   client's open on, each once, unless it was a whole buffer behind or another client
   read by its descriptor; and none does before two updates of readers
   (ringbuffer.c:105, 121) overlap. For any buffer, pieces, descriptors and clients. *)
THEOREM DamageAlwaysHasCause == Spec => []DamageHasCause
<1>1. RingInv => DamageHasCause
  BY DEF RingInv, Caused, Orderly, DamageHasCause
<1>. QED BY <1>1, RingInvariance, PTL
-----------------------------------------------------------------------------
(* The variables that the other invariants leave out. *)
Bounded ==
  /\ source.empty <= MaxEmpty /\ source.data <= MaxData
  /\ handler \in {"idle", "joining", "killed"}
  /\ shifted \in BOOLEAN

LEMMA BoundedStep == ASSUME Types, Bounded, [Next]_vars PROVE Bounded'
<1>. USE DEF Bounded
<1>0. source \in SourceType
  BY DEF Types
<1>1. ASSUME UNCHANGED source PROVE source'.empty <= MaxEmpty /\ source'.data <= MaxData
  BY <1>1
<1>2. ASSUME NEW s \in Serial, Arrive(s) PROVE Bounded'
  <2>1. CASE BosPage(s)
    <3>1. source'.data = source.data /\ (source'.empty = source.empty \/ source'.empty = 0)
      BY <1>0, <2>1 DEF BosPage, SourceType
    <3>. QED BY <1>2, <3>1, BoundsAssumption DEF Arrive
  <2>2. CASE HeaderPage(s)
    <3>1. PICK packets \in 0 .. source.left[s] :
             /\ packets = 0 => source.empty < MaxEmpty
             /\ source' = [source EXCEPT !.left[s] = @ - packets, !.open = FALSE,
                                         !.empty = IF packets = 0 THEN @ + 1 ELSE @,
                                         !.pages = Append(@, <<source.link, Len(@)>>)]
      BY <2>2 DEF HeaderPage
    <3>2. source'.data = source.data /\ source'.empty = (IF packets = 0 THEN source.empty + 1 ELSE source.empty)
      BY <1>0, <3>1 DEF SourceType
    <3>3. source'.empty <= MaxEmpty
      BY <1>0, <3>1, <3>2, BoundsAssumption DEF SourceType
    <3>. QED BY <1>2, <3>2, <3>3 DEF Arrive
  <2>3. CASE DataPage(s)
    <3>1. source'.data = source.data + 1 /\ source'.empty = source.empty /\ source.data < MaxData
      BY <1>0, <2>3 DEF DataPage, SourceType
    <3>2. source'.data <= MaxData
      BY <1>0, <3>1, BoundsAssumption DEF SourceType
    <3>. QED BY <1>2, <3>1, <3>2 DEF Arrive
  <2>. QED BY <1>2, <2>1, <2>2, <2>3 DEF Arrive
<1>3. CASE EndOfInput \/ Reset \/ Count \/ Store \/ Leave \/ RingFill \/ RingStore \/ Return \/ UNCHANGED vars
  BY <1>1, <1>3 DEF EndOfInput, Reset, Count, Store, Leave, RingFill, RingStore, Return, sourceVars, stopVars, vars
<1>4. CASE Signal \/ Joined
  BY <1>1, <1>4 DEF Signal, Joined, sourceVars
<1>5. ASSUME NEW c \in Client, Thread(c) PROVE Bounded'
  <2>1. UNCHANGED <<source, handler>> /\ shifted' \in {shifted, TRUE}
    BY <1>5 DEF Thread, sourceVars, Write1, Write2, Sent
  <2>. QED BY <1>1, <2>1
<1>. QED BY <1>2, <1>3, <1>4, <1>5 DEF Next, Writer

(* in_headers never counts more streams than there are, headers_len stays within the
   file, and what update_min takes from the stack is never a reader's position. *)
THEOREM OggTypes == Spec => []TypeOK
<1>1. Init => Bounded
  <2>. SUFFICES ASSUME Init PROVE Bounded
    OBVIOUS
  <2>1. source.empty = 0 /\ source.data = 0
    BY DEF Init
  <2>2. handler = "idle" /\ shifted = FALSE
    BY DEF Init
  <2>3. source.empty <= MaxEmpty /\ source.data <= MaxData
    BY <2>1, BoundsAssumption
  <2>. QED BY <2>2, <2>3 DEF Bounded
<1>2. OggInv /\ Bounded /\ [Next]_vars => Bounded'
  BY BoundedStep DEF OggInv, CacheInv
<1>3. OggInv /\ RingInv /\ Bounded => TypeOK
  <2>. SUFFICES ASSUME OggInv, RingInv, Bounded PROVE TypeOK
    OBVIOUS
  <2>. USE DEF OggInv, CacheInv
  <2>1. source.empty \in 0 .. MaxEmpty /\ source.data \in 0 .. MaxData
    BY BoundsAssumption DEF Bounded, Types, SourceType
  <2>2. source \in [link : Link, left : [Serial -> Int], pages : Seq(Link \X Nat), lost : Nat,
                    open : BOOLEAN, empty : 0 .. MaxEmpty, data : 0 .. MaxData]
    BY <2>1 DEF Types, SourceType, Page
  <2>3. in_headers \in 0 .. Cardinality(Serial)
    <3>1. Counted \subseteq Serial
      <4>1. page.serial \in Serial
        BY DEF Types, PageType
      <4>. QED BY <4>1 DEF Counted, Missing
    <3>2. Cardinality(Counted) \in Nat /\ Cardinality(Serial) \in Nat /\ Cardinality(Counted) <= Cardinality(Serial)
      BY <3>1, HeadersAssumption, FS_Subset, FS_CardinalityType
    <3>. QED BY <3>2 DEF Cached
  <2>4. headers_len \in 0 .. Len(file)
    BY DEF Types, Cached
  <2>5. rpos \in [Client -> 0 .. written]
    BY DEF RingInv, RingTypes
  <2>6. tracker \in [Link \X Serial -> Nat] /\ wpc \in WriterPoint /\ pc \in [Client -> ClientPoint]
    BY DEF Types
  <2>7. \A c \in Client : /\ loc[c].rd \in Descriptor \cup {NoDescriptor}
                          /\ loc[c].seen \subseteq Descriptor \cup {NoDescriptor}
                          /\ loc[c].todo \in 0 .. Size
                          /\ loc[c].split \in 0 .. Size
    BY DEF RingInv, RingTypes, Held
  <2>8. /\ rb \in ringbuffer /\ active \in 0 .. Size
        /\ piece \in [filled : 0 .. MaxPiece, todo : 0 .. MaxPiece]
        /\ headless \cup excused \cup damaged \cup lapped \cup shared \subseteq Client
    BY DEF RingInv, RingTypes
  <2>. QED BY <2>2, <2>3, <2>4, <2>5, <2>6, <2>7, <2>8 DEF TypeOK, Bounded, WriterPoint, ClientPoint
<1>. QED BY <1>1, <1>2, <1>3, OggInvariance, RingInvariance, PTL DEF Spec
=============================================================================
