---------------------------- MODULE RequestProofs ----------------------------
(***************************************************************************)
(* Proofs about Request and RuleMatcher, for every request, every rule and *)
(* every limit: a request that arrives in pieces is taken or refused as it *)
(* would be in one piece, and it is routed by the first rule that          *)
(* describes its destination, in whatever protocol it is asked for.        *)
(***************************************************************************)
EXTENDS Request, SequenceTheorems, WellFoundedInduction, TLAPS

\* A set of positions has a first one.
LEMMA Least ==
    ASSUME NEW S \in SUBSET Nat, S # {}
    PROVE  \E x \in S : \A y \in S : x <= y
<1> DEFINE R == {p \in Nat \X Nat : p[1] < p[2]}
<1>1. IsWellFoundedOn(R, Nat)
    BY NatLessThanWellFounded, Zenon DEF OpToRel
<1>2. PICK x \in S : \A y \in S : <<y, x>> \notin R
    BY <1>1, WFMin, Zenon
<1>3. \A y \in S : ~(y < x)
    BY <1>2
<1> QED BY <1>3

\* Earliest is 0 for no positions and the first one otherwise.
LEMMA EarliestIs ==
    ASSUME NEW S \in SUBSET (Nat \ {0})
    PROVE  \/ S = {} /\ Earliest(S) = 0
           \/ Earliest(S) \in S /\ \A q \in S : Earliest(S) <= q
<1>1. CASE S = {}
    BY <1>1 DEF Earliest, NotFound
<1>2. CASE S # {}
    <2>1. \E x \in S : \A y \in S : x <= y
        BY <1>2, Least
    <2> QED BY <1>2, <2>1 DEF Earliest
<1> QED BY <1>1, <1>2

-----------------------------------------------------------------------------
(* Routing.                                                                *)

\* The forms of a text are told apart.
LEMMA TextsDiffer ==
    /\ NoAddress.is = "no address" /\ Everything.is = "everything" /\ BadNetwork.is = "bad network"
    /\ \A dest \in Destination : dest.is \in {"name", "address"}
    /\ \A dest \in Destination : dest \notin {NoAddress, Everything, BadNetwork}
<1>1. /\ NoAddress.is = "no address" /\ Everything.is = "everything"
      /\ BadNetwork.is = "bad network"
    BY DEF NoAddress, Everything, BadNetwork
<1>2. \A dest \in Destination : dest.is \in {"name", "address"}
    BY DEF Destination
<1> QED BY <1>1, <1>2

\* A text has one of the five forms.
LEMMA TextCases ==
    ASSUME NEW text \in Text
    PROVE  \/ text.is = "name" /\ text = [is |-> "name", labels |-> text.labels]
           \/ text.is = "address" /\ text = [is |-> "address", ip |-> text.ip]
           \/ text.is = "network"
           \/ text.is = "everything" /\ text = Everything
           \/ text.is = "bad network" /\ text = BadNetwork
<1>1. CASE text \in [is : {"name"}, labels : Seq(STRING)]
    BY <1>1
<1>2. CASE text \in [is : {"address"}, ip : Addresses]
    BY <1>2
<1>3. CASE text \in [is : {"network"}, net : Networks]
    BY <1>3
<1>4. CASE text \in {Everything, BadNetwork}
    BY <1>4, TextsDiffer
<1> QED BY <1>1, <1>2, <1>3, <1>4 DEF Text, Destination

\* What parse_pattern makes of each kind of text, and what it then matches.
LEMMA ParsedMatches ==
    ASSUME NEW star \in BOOLEAN, NEW text, NEW host, NEW ip
    PROVE  LET some == \E m \in parse_pattern([star |-> star, text |-> text]) :
                           match_pattern(m, host, ip)
           IN  /\ text.is = "name" \/ text.is = "everything" \/ (text.is = "address" /\ star) =>
                      (some <=> GlobMatches([star |-> star, text |-> text], host))
               /\ text.is = "address" /\ ~star => (some <=> ip # NoAddress /\ ip.ip = text.ip)
               /\ text.is = "network" /\ ~star => (some <=> ip # NoAddress /\ ip.ip \in text.net)
               /\ text.is = "network" /\ star => ~some
               /\ text = BadNetwork => ~some
<1> DEFINE p == [star |-> star, text |-> text]
           some == \E m \in parse_pattern(p) : match_pattern(m, host, ip)
<1>1. p.star = star /\ p.text = text
    OBVIOUS
<1> HIDE DEF p
<1>2. ASSUME text.is = "name" \/ text.is = "everything" \/ (text.is = "address" /\ star)
      PROVE  some <=> GlobMatches(p, host)
    <2>1. parse_pattern(p) = {[kind |-> "domain", glob |-> p]}
        BY <1>1, <1>2 DEF parse_pattern
    <2>2. match_pattern([kind |-> "domain", glob |-> p], host, ip) <=> GlobMatches(p, host)
        BY DEF match_pattern
    <2> QED BY <2>1, <2>2
<1>3. ASSUME text.is = "address", ~star
      PROVE  some <=> ip # NoAddress /\ ip.ip = text.ip
    <2>1. parse_pattern(p) = {[kind |-> "ip", ip |-> text.ip]}
        BY <1>1, <1>3 DEF parse_pattern
    <2>2. match_pattern([kind |-> "ip", ip |-> text.ip], host, ip)
              <=> ip # NoAddress /\ ip.ip = text.ip
        BY DEF match_pattern
    <2> QED BY <2>1, <2>2
<1>4. ASSUME text.is = "network", ~star
      PROVE  some <=> ip # NoAddress /\ ip.ip \in text.net
    <2>1. text # BadNetwork
        BY <1>4, TextsDiffer
    <2>2. parse_pattern(p) = {[kind |-> "cidr", net |-> text.net]}
        BY <1>1, <1>4, <2>1 DEF parse_pattern
    <2>3. match_pattern([kind |-> "cidr", net |-> text.net], host, ip)
              <=> ip # NoAddress /\ ip.ip \in text.net
        BY DEF match_pattern
    <2> QED BY <2>2, <2>3
<1>5. ASSUME (text.is = "network" /\ star) \/ text = BadNetwork
      PROVE  ~some
    <2>1. text.is \in {"network", "bad network"}
        BY <1>5, TextsDiffer
    <2>2. parse_pattern(p) = {}
        BY <1>1, <1>5, <2>1 DEF parse_pattern
    <2> QED BY <2>2
<1> QED BY <1>2, <1>3, <1>4, <1>5 DEF p

\* What the patterns of a configuration are turned into matches what they
\* describe, when an address is known as one.
LEMMA PatternDescribes ==
    ASSUME NEW p \in Pattern, NEW dest \in Destination
    PROVE  (\E q \in Expanded(p) :
                match_pattern(q, dest, IF dest.is = "address" THEN dest ELSE NoAddress))
               <=> Describes(p, dest)
<1> DEFINE ip == IF dest.is = "address" THEN dest ELSE NoAddress
           text == p.text
           Some(star) == \E m \in parse_pattern([star |-> star, text |-> text]) :
                             match_pattern(m, dest, ip)
<1>1. p.star \in BOOLEAN /\ text \in Text /\ p = [star |-> p.star, text |-> text]
    BY DEF Pattern
<1>2. /\ dest \in Text /\ dest.is \in {"name", "address"}
      /\ dest.is = "name" => dest = [is |-> "name", labels |-> dest.labels]
      /\ dest.is = "address" => dest = [is |-> "address", ip |-> dest.ip]
    <2>1. dest \in Text
        BY DEF Text
    <2> QED BY <2>1, TextsDiffer, TextCases
<1>3. ip # NoAddress <=> dest.is = "address"
    BY TextsDiffer
<1>4. (\E q \in Expanded(p) : match_pattern(q, dest, ip)) <=> Some(p.star) \/ (p.star /\ Some(FALSE))
    BY <1>1 DEF Expanded, Bare
<1>5. dest.is = "address" => ip = dest
    OBVIOUS
<1> HIDE DEF ip, text, Some
<1>6. CASE text.is = "name" /\ text = [is |-> "name", labels |-> text.labels]
    <2>1. text # Everything
        BY <1>6, TextsDiffer
    <2>2. \A star \in BOOLEAN : Some(star) <=> GlobMatches([star |-> star, text |-> text], dest)
        BY <1>6, ParsedMatches DEF Some
    <2>3. \A star \in BOOLEAN : GlobMatches([star |-> star, text |-> text], dest)
              <=> /\ dest.is = "name"
                  /\ IF star THEN Below(dest.labels, text.labels) ELSE dest.labels = text.labels
        BY <1>6, <2>1 DEF GlobMatches
    <2>4. text = dest <=> dest.is = "name" /\ dest.labels = text.labels
        BY <1>2, <1>6
    <2>5. Describes(p, dest) <=> /\ dest.is = "name"
                                 /\ \/ dest.labels = text.labels
                                    \/ p.star /\ Below(dest.labels, text.labels)
        BY <1>6, <2>1, <2>4 DEF Describes, text
    <2> QED BY <1>1, <1>4, <2>2, <2>3, <2>5 DEF ip
<1>7. CASE text.is = "address" /\ text = [is |-> "address", ip |-> text.ip]
    <2>1. text # Everything
        BY <1>7, TextsDiffer
    <2>2. ~Some(TRUE)
        <3>1. Some(TRUE) <=> GlobMatches([star |-> TRUE, text |-> text], dest)
            BY <1>7, ParsedMatches DEF Some
        <3> QED BY <1>7, <2>1, <3>1 DEF GlobMatches
    <2>3. Some(FALSE) <=> ip # NoAddress /\ ip.ip = text.ip
        BY <1>7, ParsedMatches DEF Some
    <2>4. text = dest <=> dest.is = "address" /\ dest.ip = text.ip
        BY <1>2, <1>7
    <2>5. Describes(p, dest) <=> dest.is = "address" /\ dest.ip = text.ip
        BY <1>7, <2>1, <2>4 DEF Describes, text
    <2> QED BY <1>1, <1>3, <1>4, <1>5, <2>2, <2>3, <2>5 DEF ip
<1>8. CASE text.is = "network"
    <2>1. text # Everything /\ text # dest
        BY <1>2, <1>8, TextsDiffer
    <2>2. ~Some(TRUE) /\ (Some(FALSE) <=> ip # NoAddress /\ ip.ip \in text.net)
        BY <1>8, ParsedMatches DEF Some
    <2>3. Describes(p, dest) <=> dest.is = "address" /\ dest.ip \in text.net
        BY <1>8, <2>1 DEF Describes, text
    <2> QED BY <1>1, <1>3, <1>4, <1>5, <2>2, <2>3 DEF ip
<1>9. CASE text.is = "everything" /\ text = Everything
    <2>1. Some(FALSE) <=> GlobMatches([star |-> FALSE, text |-> text], dest)
        BY <1>9, ParsedMatches DEF Some
    <2>2. Some(FALSE)
        BY <1>9, <2>1 DEF GlobMatches
    <2>3. Describes(p, dest)
        BY <1>9 DEF Describes, text
    <2> QED BY <1>1, <1>4, <2>2, <2>3 DEF ip
<1>10. CASE text.is = "bad network" /\ text = BadNetwork
    <2>1. \A star \in BOOLEAN : ~Some(star)
        BY <1>10, ParsedMatches DEF Some
    <2>2. ~Describes(p, dest)
        BY <1>2, <1>10, TextsDiffer DEF Describes, text
    <2> QED BY <1>1, <1>4, <2>1, <2>2 DEF ip
<1> QED BY <1>1, <1>6, <1>7, <1>8, <1>9, <1>10, TextCases

\* Whichever protocol brought the destination, the rule sees it.
LEMMA RuleDescribes ==
    ASSUME NEW kind \in Kinds, NEW dest \in Destination, NEW patterns \in Seq(Pattern),
           Host(kind, dest).is # "bracketed"
    PROVE  Matches(patterns, Host(kind, dest), Ip(kind, dest))
               <=> \E j \in DOMAIN patterns : Describes(patterns[j], dest)
<1>1. Host(kind, dest) = dest
    BY DEF Host, Bracketed
<1>2. Resolved(dest, Ip(kind, dest)) = IF dest.is = "address" THEN dest ELSE NoAddress
    <2>1. dest # NoAddress
        BY TextsDiffer
    <2> QED BY <2>1 DEF Resolved, Ip
<1>3. \A j \in DOMAIN patterns : patterns[j] \in Pattern
    BY ElementOfSeq, LenProperties
<1>4. Matches(patterns, dest, Ip(kind, dest))
          <=> \E j \in DOMAIN patterns : \E q \in Expanded(patterns[j]) :
                  match_pattern(q, dest, IF dest.is = "address" THEN dest ELSE NoAddress)
    BY <1>2 DEF Matches, Patterns
<1> QED BY <1>1, <1>3, <1>4, PatternDescribes

-----------------------------------------------------------------------------
(* Reading.                                                                *)

\* What was read, after what was taken, and what is still to come are the
\* bytes of the request.
Split(bytes, read, rest, taken) ==
    /\ bytes \in Seq(STRING) /\ read \in Seq(STRING) /\ rest \in Seq(STRING)
    /\ taken \in Nat /\ taken + Len(read) + Len(rest) = Len(bytes)
    /\ \A i \in 1..Len(read) : read[i] = bytes[taken + i]
    /\ \A i \in 1..Len(rest) : rest[i] = bytes[taken + Len(read) + i]

\* A part of a sequence, place by place.
LEMMA Part ==
    ASSUME NEW s \in Seq(STRING), NEW m \in 1..(Len(s) + 1), NEW n \in (m - 1)..Len(s)
    PROVE  /\ SubSeq(s, m, n) \in Seq(STRING)
           /\ Len(SubSeq(s, m, n)) = n - m + 1
           /\ \A i \in 1..(n - m + 1) : SubSeq(s, m, n)[i] = s[m + i - 1]
<1>1. Len(s) \in Nat /\ m \in Nat /\ n \in Nat /\ m <= n + 1 /\ 1 <= m /\ n <= Len(s)
    BY LenProperties
<1>2. \A i \in m..n : s[i] \in STRING
    <2>1. \A i \in 1..Len(s) : s[i] \in STRING
        BY ElementOfSeq
    <2>2. \A i \in m..n : i \in 1..Len(s)
        BY <1>1
    <2> QED BY <2>1, <2>2
<1>3. /\ SubSeq(s, m, n) \in Seq(STRING)
      /\ Len(SubSeq(s, m, n)) = IF m <= n THEN n - m + 1 ELSE 0
      /\ \A i \in 1..(n - m + 1) : SubSeq(s, m, n)[i] = s[m + i - 1]
    BY <1>1, <1>2, SubSeqProperties
<1> QED BY <1>1, <1>3

\* A read moves bytes from the socket to the buffer.
LEMMA ReadSplits ==
    ASSUME NEW bytes, NEW read, NEW rest, Split(bytes, read, rest, 0), NEW n \in 1..Len(rest)
    PROVE  /\ Split(bytes, read \o SubSeq(rest, 1, n), SubSeq(rest, n + 1, Len(rest)), 0)
           /\ Len(read \o SubSeq(rest, 1, n)) = Len(read) + n
<1> DEFINE a == Len(read)
           b == Len(rest)
           first == SubSeq(rest, 1, n)
           last == SubSeq(rest, n + 1, b)
<1>1. /\ a \in Nat /\ b \in Nat /\ n \in Nat /\ 1 <= n /\ n <= b
      /\ read \in Seq(STRING) /\ rest \in Seq(STRING) /\ a + b = Len(bytes)
      /\ \A i \in 1..a : read[i] = bytes[i]
      /\ \A i \in 1..b : rest[i] = bytes[a + i]
    BY LenProperties DEF Split
<1>2. first \in Seq(STRING) /\ Len(first) = n /\ \A i \in 1..n : first[i] = rest[i]
    <2>1. 1 \in 1..(b + 1) /\ n \in (1 - 1)..b
        BY <1>1
    <2> QED BY <1>1, <2>1, Part
<1>3. /\ last \in Seq(STRING) /\ Len(last) = b - n
      /\ \A i \in 1..(b - n) : last[i] = rest[n + i]
    <2>1. n + 1 \in 1..(b + 1) /\ b \in ((n + 1) - 1)..b
        BY <1>1
    <2>2. /\ last \in Seq(STRING) /\ Len(last) = b - (n + 1) + 1
          /\ \A i \in 1..(b - (n + 1) + 1) : last[i] = rest[(n + 1) + i - 1]
        BY <1>1, <2>1, Part
    <2> HIDE DEF last, b
    <2> QED BY <1>1, <2>2
<1> HIDE DEF first, last, a, b
<1>4. /\ read \o first \in Seq(STRING) /\ Len(read \o first) = a + n
      /\ \A i \in 1..(a + n) : (read \o first)[i] = IF i <= a THEN read[i] ELSE first[i - a]
    BY <1>1, <1>2, ConcatProperties DEF a
<1>5. \A i \in 1..(a + n) : (read \o first)[i] = bytes[0 + i]
    <2>1. SUFFICES ASSUME NEW i \in 1..(a + n) PROVE (read \o first)[i] = bytes[0 + i]
        OBVIOUS
    <2>2. CASE i <= a
        BY <1>1, <1>4, <2>2
    <2>3. CASE ~(i <= a)
        <3>1. i - a \in 1..n /\ i - a \in 1..b /\ a + (i - a) = i
            BY <1>1, <2>3
        <3>2. first[i - a] = bytes[a + (i - a)]
            BY <1>1, <1>2, <3>1
        <3> QED BY <1>4, <2>3, <3>1, <3>2
    <2> QED BY <2>2, <2>3
<1>6. \A i \in 1..(b - n) : last[i] = bytes[0 + (a + n) + i]
    <2>1. SUFFICES ASSUME NEW i \in 1..(b - n) PROVE last[i] = bytes[0 + (a + n) + i]
        OBVIOUS
    <2>2. n + i \in 1..b /\ a + (n + i) = 0 + (a + n) + i
        BY <1>1
    <2> QED BY <1>1, <1>3, <2>2
<1>7. 0 + (a + n) + (b - n) = Len(bytes)
    <2>1. \A x, y, z \in Nat : z <= y => 0 + (x + z) + (y - z) = x + y
        OBVIOUS
    <2>2. 0 + (a + n) + (b - n) = a + b
        BY <1>1, <2>1
    <2> QED BY <1>1, <2>2
<1>8. bytes \in Seq(STRING)
    BY DEF Split
<1> QED BY <1>2, <1>3, <1>4, <1>5, <1>6, <1>7, <1>8 DEF Split, first, last, a, b

\* The request is taken off the front of the buffer.
LEMMA TakenSplits ==
    ASSUME NEW bytes, NEW read, NEW rest, Split(bytes, read, rest, 0), NEW n \in 0..Len(read)
    PROVE  Split(bytes, SubSeq(read, n + 1, Len(read)), rest, n)
<1> DEFINE a == Len(read)
           b == Len(rest)
           left == SubSeq(read, n + 1, a)
<1>1. /\ a \in Nat /\ b \in Nat /\ n \in Nat /\ n <= a
      /\ read \in Seq(STRING) /\ rest \in Seq(STRING) /\ a + b = Len(bytes)
      /\ \A i \in 1..a : read[i] = bytes[i]
      /\ \A i \in 1..b : rest[i] = bytes[a + i]
      /\ bytes \in Seq(STRING)
    BY LenProperties DEF Split
<1>2. left \in Seq(STRING) /\ Len(left) = a - n /\ \A i \in 1..(a - n) : left[i] = read[n + i]
    <2>1. n + 1 \in 1..(a + 1) /\ a \in ((n + 1) - 1)..a
        BY <1>1
    <2>2. /\ left \in Seq(STRING) /\ Len(left) = a - (n + 1) + 1
          /\ \A i \in 1..(a - (n + 1) + 1) : left[i] = read[(n + 1) + i - 1]
        BY <1>1, <2>1, Part
    <2> HIDE DEF left, a
    <2> QED BY <1>1, <2>2
<1> HIDE DEF left, a, b
<1>3. \A i \in 1..(a - n) : left[i] = bytes[n + i]
    BY <1>1, <1>2
<1>4. n + (a - n) + b = Len(bytes) /\ \A i \in 1..b : rest[i] = bytes[n + (a - n) + i]
    BY <1>1
<1> QED BY <1>1, <1>2, <1>3, <1>4 DEF Split, left, a, b

\* Split says it place by place; this is the same of the whole sequence.
LEMMA SplitJoins ==
    ASSUME NEW bytes, NEW read, NEW rest, NEW taken, Split(bytes, read, rest, taken)
    PROVE  read \o rest = SubSeq(bytes, taken + 1, Len(bytes))
<1> DEFINE a == Len(read)
           b == Len(rest)
           len == Len(bytes)
           tail == SubSeq(bytes, taken + 1, len)
<1>1. /\ a \in Nat /\ b \in Nat /\ taken \in Nat /\ len \in Nat /\ taken + a + b = len
      /\ read \in Seq(STRING) /\ rest \in Seq(STRING) /\ bytes \in Seq(STRING)
      /\ \A i \in 1..a : read[i] = bytes[taken + i]
      /\ \A i \in 1..b : rest[i] = bytes[taken + a + i]
    BY LenProperties DEF Split
<1>2. /\ read \o rest \in Seq(STRING) /\ Len(read \o rest) = a + b
      /\ \A i \in 1..(a + b) : (read \o rest)[i] = IF i <= a THEN read[i] ELSE rest[i - a]
    BY <1>1, ConcatProperties
<1>3. /\ tail \in Seq(STRING) /\ Len(tail) = len - taken
      /\ \A i \in 1..(len - taken) : tail[i] = bytes[taken + i]
    <2>1. taken + 1 \in 1..(len + 1) /\ len \in ((taken + 1) - 1)..len
        <3> HIDE DEF a, b, len
        <3> QED BY <1>1
    <2>2. /\ tail \in Seq(STRING) /\ Len(tail) = len - (taken + 1) + 1
          /\ \A i \in 1..(len - (taken + 1) + 1) : tail[i] = bytes[(taken + 1) + i - 1]
        BY <1>1, <2>1, Part
    <2> HIDE DEF tail, len
    <2> QED BY <1>1, <2>2
<1> HIDE DEF tail, a, b, len
<1>4. ASSUME NEW i \in 1..(a + b)
      PROVE  (read \o rest)[i] = tail[i]
    <2>1. i \in 1..(len - taken)
        BY <1>1
    <2>2. CASE i <= a
        BY <1>1, <1>2, <1>3, <2>1, <2>2
    <2>3. CASE ~(i <= a)
        <3>1. i - a \in 1..b /\ taken + a + (i - a) = taken + i
            BY <1>1, <2>3
        <3>2. rest[i - a] = bytes[taken + i]
            BY <1>1, <3>1
        <3> QED BY <1>2, <1>3, <2>1, <2>3, <3>2
    <2> QED BY <2>2, <2>3
<1>5. Len(tail) = a + b
    BY <1>1, <1>3
<1> QED BY <1>2, <1>3, <1>4, <1>5, SeqEqual DEF tail, len

-----------------------------------------------------------------------------
(* Searching.                                                              *)

\* A separator of two or of three bytes ends a line, and the other way round.
LEMMA SeparatorsEndLines ==
    ASSUME NEW b \in Seq(STRING)
    PROVE  /\ \A i \in 1..(Len(b) - 1) : SeparatorAt(b, i) =>
                  /\ SeparatorEnd(b, i) \in 2..Len(b) /\ EndsLine(b, SeparatorEnd(b, i))
                  /\ SeparatorEnd(b, i) \in {i + 1, i + 2}
           /\ \A e \in 2..Len(b) : EndsLine(b, e) =>
                  \E i \in 1..(Len(b) - 1) : SeparatorAt(b, i) /\ SeparatorEnd(b, i) = e
<1> DEFINE n == Len(b)
<1>1. n \in Nat
    BY LenProperties
<1>2. CR # LF
    BY DEF CR, LF
<1> HIDE DEF n
<1>3. ASSUME NEW i \in 1..(n - 1), SeparatorAt(b, i)
      PROVE  /\ SeparatorEnd(b, i) \in 2..n /\ EndsLine(b, SeparatorEnd(b, i))
             /\ SeparatorEnd(b, i) \in {i + 1, i + 2}
    <2>1. CASE b[i + 1] = LF
        <3>1. SeparatorEnd(b, i) = i + 1 /\ i + 1 \in 2..n /\ (i + 1) - 1 = i
            BY <1>1, <2>1 DEF SeparatorEnd
        <3>2. b[i] = LF
            BY <1>3 DEF SeparatorAt
        <3> QED BY <2>1, <3>1, <3>2 DEF EndsLine
    <2>2. CASE b[i + 1] # LF
        <3>1. b[i] = LF /\ i + 2 <= n /\ b[i + 1] = CR /\ b[i + 2] = LF
            BY <1>3, <2>2 DEF SeparatorAt, n
        <3>2. /\ SeparatorEnd(b, i) = i + 2 /\ i + 2 \in 2..n /\ i + 2 > 2
              /\ (i + 2) - 1 = i + 1 /\ (i + 2) - 2 = i
            BY <1>1, <2>2, <3>1 DEF SeparatorEnd
        <3> QED BY <3>1, <3>2 DEF EndsLine
    <2> QED BY <2>1, <2>2
<1>4. ASSUME NEW e \in 2..n, EndsLine(b, e)
      PROVE  \E i \in 1..(n - 1) : SeparatorAt(b, i) /\ SeparatorEnd(b, i) = e
    <2>1. CASE b[e - 1] = LF
        <3>1. e - 1 \in 1..(n - 1) /\ (e - 1) + 1 = e
            BY <1>1
        <3>2. SeparatorAt(b, e - 1) /\ SeparatorEnd(b, e - 1) = e
            BY <1>4, <2>1, <3>1 DEF SeparatorAt, SeparatorEnd, EndsLine
        <3> QED BY <3>1, <3>2
    <2>2. CASE b[e - 1] # LF
        <3>1. e > 2 /\ b[e - 1] = CR /\ b[e - 2] = LF /\ b[e] = LF
            BY <1>4, <2>2 DEF EndsLine
        <3>2. e - 2 \in 1..(n - 1) /\ (e - 2) + 1 = e - 1 /\ (e - 2) + 2 = e
            BY <1>1, <3>1
        <3>3. SeparatorAt(b, e - 2) /\ SeparatorEnd(b, e - 2) = e
            BY <2>2, <3>1, <3>2 DEF SeparatorAt, SeparatorEnd, n
        <3> QED BY <3>2, <3>3
    <2> QED BY <2>1, <2>2
<1> QED BY <1>3, <1>4 DEF n

\* find_header_separator finds the first end of the headers, provided that none
\* is before the place it resumes from: three bytes back are enough.
LEMMA FindsFirst ==
    ASSUME NEW b \in Seq(STRING), NEW pos \in 0..Len(b),
           \A e \in 2..pos : ~EndsLine(b, e)
    PROVE  LET end == find_header_separator(b, pos) IN
           \/ end = 0 /\ \A e \in 2..Len(b) : ~EndsLine(b, e)
           \/ /\ end \in 2..Len(b) /\ EndsLine(b, end)
              /\ \A e \in 2..Len(b) : EndsLine(b, e) => end <= e
<1> DEFINE n == Len(b)
           from == ResumeAt(pos)
           P == {i \in (from + 1)..(n - 1) : SeparatorAt(b, i)}
           first == Earliest(P)
           end == find_header_separator(b, pos)
<1>1. n \in Nat /\ pos \in Nat /\ from \in Nat /\ (from = 0 \/ from = pos - 3)
    BY LenProperties DEF ResumeAt
<1>2. end = IF first = 0 THEN 0 ELSE SeparatorEnd(b, first)
    BY DEF find_header_separator, NotFound
<1>3. /\ \A i \in 1..(n - 1) : SeparatorAt(b, i) =>
             /\ SeparatorEnd(b, i) \in 2..n /\ EndsLine(b, SeparatorEnd(b, i))
             /\ SeparatorEnd(b, i) \in {i + 1, i + 2}
      /\ \A e \in 2..n : EndsLine(b, e) =>
             \E i \in 1..(n - 1) : SeparatorAt(b, i) /\ SeparatorEnd(b, i) = e
    BY SeparatorsEndLines
<1> HIDE DEF n, from, end
<1>4. P \in SUBSET (Nat \ {0})
    BY <1>1
<1>5. \A e \in 2..n : EndsLine(b, e) => \E i \in P : SeparatorEnd(b, i) = e
    <2>1. SUFFICES ASSUME NEW e \in 2..n, EndsLine(b, e)
                   PROVE  \E i \in P : SeparatorEnd(b, i) = e
        OBVIOUS
    <2>2. PICK i \in 1..(n - 1) : SeparatorAt(b, i) /\ SeparatorEnd(b, i) = e
        BY <1>3, <2>1
    <2>3. e > pos /\ e <= i + 2
        <3>1. ~(e \in 2..pos)
            BY <2>1
        <3> QED BY <1>1, <1>3, <2>2, <3>1
    <2>4. i \in P
        BY <1>1, <2>2, <2>3
    <2> QED BY <2>2, <2>4
<1>6. CASE P = {}
    <2>1. end = 0
        BY <1>2, <1>4, <1>6, EarliestIs
    <2> QED BY <1>5, <1>6, <2>1 DEF n, end
<1>7. CASE P # {}
    <2>1. first \in P /\ \A q \in P : first <= q
        BY <1>4, <1>7, EarliestIs
    <2> HIDE DEF first
    <2>2. first \in 1..(n - 1) /\ SeparatorAt(b, first) /\ end = SeparatorEnd(b, first)
        BY <1>1, <1>2, <2>1
    <2>3. end \in 2..n /\ EndsLine(b, end) /\ end \in {first + 1, first + 2}
        BY <1>3, <2>2
    <2>4. ASSUME NEW e \in 2..n, EndsLine(b, e)
          PROVE  end <= e
        <3>1. PICK i \in P : SeparatorEnd(b, i) = e
            BY <1>5, <2>4
        <3>2. first <= i /\ i \in 1..(n - 1) /\ SeparatorAt(b, i) /\ e \in {i + 1, i + 2}
            BY <1>1, <1>3, <2>1, <3>1
        <3>3. CASE first = i
            BY <2>2, <2>3, <3>1, <3>3
        <3>4. CASE first # i /\ end = first + 1
            BY <1>1, <2>2, <3>2, <3>4
        <3>5. CASE first # i /\ end = first + 2 /\ end # first + 1
            <4>1. b[first + 1] # LF
                BY <1>1, <2>2, <3>5 DEF SeparatorEnd
            <4>2. i # first + 1
                BY <3>2, <4>1 DEF SeparatorAt
            <4> QED BY <1>1, <2>2, <3>2, <3>5, <4>2
        <3> QED BY <2>3, <3>3, <3>4, <3>5
    <2> QED BY <2>3, <2>4 DEF n, end
<1> QED BY <1>6, <1>7

\* The first zero byte after a place that is in the buffer is the request's, or
\* it is still to come.
LEMMA NulFound ==
    ASSUME NEW bytes, NEW read, NEW rest, Split(bytes, read, rest, 0), NEW after \in 0..Len(read)
    PROVE  LET found == FirstNul(read, after)
               all == Earliest({i \in DOMAIN bytes : bytes[i] = NUL /\ i > after})
           IN  \/ found \in (after + 1)..Len(read) /\ all = found
               \/ found = 0 /\ (all = 0 \/ all > Len(read)) /\ all \in Nat /\ all <= Len(bytes)
<1> DEFINE n == Len(read)
           Z == {i \in (after + 1)..n : read[i] = NUL}
           A == {i \in DOMAIN bytes : bytes[i] = NUL /\ i > after}
           all == Earliest(A)
           found == FirstNul(read, after)
<1>1. /\ n \in Nat /\ Len(bytes) \in Nat /\ n <= Len(bytes) /\ DOMAIN bytes = 1..Len(bytes)
      /\ after \in Nat /\ \A i \in 1..n : read[i] = bytes[i]
    <2>1. /\ n \in Nat /\ Len(bytes) \in Nat /\ Len(rest) \in Nat /\ DOMAIN bytes = 1..Len(bytes)
        BY LenProperties DEF Split
    <2>2. 0 + n + Len(rest) = Len(bytes) /\ \A i \in 1..n : read[i] = bytes[0 + i]
        BY DEF Split
    <2> HIDE DEF n
    <2> QED BY <2>1, <2>2
<1>2. found = Earliest(Z)
    BY DEF FirstNul
<1> HIDE DEF n, found
<1>3. A \in SUBSET (Nat \ {0}) /\ Z = {i \in A : i <= n}
    BY <1>1
<1>4. /\ (Z = {} /\ Earliest(Z) = 0) \/ (Earliest(Z) \in Z /\ \A q \in Z : Earliest(Z) <= q)
      /\ (A = {} /\ all = 0) \/ (all \in A /\ \A q \in A : all <= q)
    <2>1. Z \in SUBSET (Nat \ {0})
        BY <1>3
    <2> HIDE DEF A, Z
    <2> QED BY <1>3, <2>1, EarliestIs
<1> HIDE DEF all
<1>5. CASE Z = {}
    BY <1>1, <1>2, <1>3, <1>4, <1>5 DEF n, found, all
<1>6. CASE Z # {}
    <2>1. Earliest(Z) \in A /\ Earliest(Z) <= n /\ \A q \in A : q <= n => Earliest(Z) <= q
        BY <1>3, <1>4, <1>6
    <2>2. all = Earliest(Z)
        <3>1. all \in A /\ all <= Earliest(Z)
            BY <1>4, <2>1
        <3>2. all \in Nat /\ Earliest(Z) \in Nat
            BY <1>3, <2>1, <3>1
        <3>3. all <= n
            BY <1>1, <2>1, <3>1, <3>2
        <3>4. Earliest(Z) <= all
            BY <2>1, <3>1, <3>3
        <3> QED BY <3>1, <3>2, <3>4
    <2>3. Earliest(Z) \in (after + 1)..n
        BY <1>4, <1>6
    <2> QED BY <1>2, <2>2, <2>3 DEF n, found, all
<1> QED BY <1>5, <1>6

\* What the buffer shows of the end of the headers is true of the request.
LEMMA HeadersFound ==
    ASSUME NEW bytes, NEW read, NEW rest, Split(bytes, read, rest, 0), NEW pos \in 0..Len(read),
           \A e \in 2..pos : ~EndsLine(read, e)
    PROVE  LET end == find_header_separator(read, pos) IN
           /\ end \in 0..Len(read)
           /\ end # 0 => HeadersEnd(bytes) = IF end > HeaderMax THEN 0 ELSE end
           /\ end = 0 => \A e \in 2..Len(read) : ~EndsLine(read, e)
           /\ end = 0 /\ (Len(read) > HeaderMax \/ rest = <<>>) => HeadersEnd(bytes) = 0
<1> DEFINE n == Len(read)
           len == Len(bytes)
           end == find_header_separator(read, pos)
           E == {e \in 2..len : e <= HeaderMax /\ EndsLine(bytes, e)}
<1>1. /\ n \in Nat /\ len \in Nat /\ n <= len /\ (rest = <<>> => n = len)
      /\ \A i \in 1..n : read[i] = bytes[i]
      /\ read \in Seq(STRING) /\ HeaderMax \in Nat
    <2>1. /\ n \in Nat /\ len \in Nat /\ Len(rest) \in Nat /\ (rest = <<>> => Len(rest) = 0)
          /\ read \in Seq(STRING) /\ HeaderMax \in Nat
        BY LenProperties, RequestAssumption DEF Split
    <2>2. 0 + n + Len(rest) = len /\ \A i \in 1..n : read[i] = bytes[0 + i]
        BY DEF Split
    <2> HIDE DEF n, len
    <2> QED BY <2>1, <2>2
<1>2. \/ end = 0 /\ \A e \in 2..n : ~EndsLine(read, e)
      \/ end \in 2..n /\ EndsLine(read, end) /\ \A e \in 2..n : EndsLine(read, e) => end <= e
    BY <1>1, FindsFirst
<1> HIDE DEF n, len, end
<1>3. \A e \in 2..n : EndsLine(read, e) <=> EndsLine(bytes, e)
    <2>1. SUFFICES ASSUME NEW e \in 2..n PROVE EndsLine(read, e) <=> EndsLine(bytes, e)
        OBVIOUS
    <2>2. e \in 1..n /\ e - 1 \in 1..n /\ (e > 2 => e - 2 \in 1..n)
        BY <1>1
    <2> QED BY <1>1, <2>2 DEF EndsLine
<1>4. E \in SUBSET (Nat \ {0}) /\ HeadersEnd(bytes) = Earliest(E)
    BY DEF HeadersEnd, len
<1>5. \/ E = {} /\ HeadersEnd(bytes) = 0
      \/ HeadersEnd(bytes) \in E /\ \A q \in E : HeadersEnd(bytes) <= q
    <2> HIDE DEF E
    <2> QED BY <1>4, EarliestIs
<1>6. CASE end = 0
    <2>1. ASSUME n > HeaderMax \/ rest = <<>> PROVE E = {}
        BY <1>1, <1>2, <1>3, <1>6, <2>1
    <2> QED BY <1>1, <1>2, <1>5, <1>6, <2>1 DEF n, end
<1>7. CASE end # 0
    <2>1. end \in 2..n /\ EndsLine(bytes, end) /\ \A e \in 2..n : EndsLine(bytes, e) => end <= e
        BY <1>2, <1>3, <1>7
    <2>2. \A e \in E : end <= e
        BY <1>1, <2>1
    <2>3. CASE end > HeaderMax
        BY <1>1, <1>5, <1>7, <2>1, <2>2, <2>3 DEF n, end
    <2>4. CASE ~(end > HeaderMax)
        <3>1. end \in E
            BY <1>1, <2>1, <2>4
        <3>2. HeadersEnd(bytes) \in E /\ HeadersEnd(bytes) <= end /\ end <= HeadersEnd(bytes)
            BY <1>5, <2>2, <3>1
        <3>3. HeadersEnd(bytes) \in Nat /\ end \in Nat
            BY <1>1, <2>1, <3>2
        <3>4. HeadersEnd(bytes) = end
            BY <3>2, <3>3
        <3> QED BY <1>1, <1>7, <2>1, <2>4, <3>4 DEF n, end
    <2> QED BY <2>3, <2>4
<1> QED BY <1>6, <1>7

\* What the buffer shows of the zero bytes of a SOCKS4 request.
SocksSeen(kind, read) ==
    LET user == FirstNul(read, 0)
    IN  IF kind = "socks4" \/ user = 0 THEN user ELSE FirstNul(read, user)
SocksFits(kind, read) ==
    LET user == FirstNul(read, 0)
    IN  user - 1 <= UserMax /\ SocksSeen(kind, read) - user - 1 <= DomainMax

LEMMA SocksFound ==
    ASSUME NEW bytes, NEW read, NEW rest, Split(bytes, read, rest, 0), NEW kind \in {"socks4", "socks4a"}
    PROVE  LET end == SocksSeen(kind, read)
               whole == SocksEnd(bytes, IF kind = "socks4" THEN 1 ELSE 2)
           IN  /\ end \in 0..Len(read)
               /\ end # 0 => whole = IF SocksFits(kind, read) THEN end ELSE 0
               /\ end = 0 /\ (Len(read) > SocksMax \/ rest = <<>>) => whole = 0
<1> DEFINE n == Len(read)
           len == Len(bytes)
           seen == FirstNul(read, 0)
           zeros == {i \in DOMAIN bytes : bytes[i] = NUL}
           user == Earliest(zeros)
           later == {i \in DOMAIN bytes : bytes[i] = NUL /\ i > user}
           domain == Earliest(zeros \ {user})
           whole == SocksEnd(bytes, IF kind = "socks4" THEN 1 ELSE 2)
           end == SocksSeen(kind, read)
<1>1. /\ n \in Nat /\ len \in Nat /\ DOMAIN bytes = 1..len /\ (rest = <<>> => n = len)
      /\ UserMax \in Nat /\ DomainMax \in Nat /\ SocksMax \in Nat
      /\ SocksMax > UserMax + DomainMax + 1
    <2>1. /\ n \in Nat /\ len \in Nat /\ Len(rest) \in Nat /\ (rest = <<>> => Len(rest) = 0)
          /\ DOMAIN bytes = 1..len
        BY LenProperties DEF Split
    <2>2. 0 + n + Len(rest) = len
        BY DEF Split
    <2>3. UserMax \in Nat /\ DomainMax \in Nat /\ SocksMax \in Nat /\ SocksMax > UserMax + DomainMax + 1
        BY RequestAssumption
    <2> HIDE DEF n, len
    <2> QED BY <2>1, <2>2, <2>3
<1>2. \/ seen \in 1..n /\ user = seen
      \/ seen = 0 /\ (user = 0 \/ user > n) /\ user \in Nat /\ user <= len
    <2>1. {i \in DOMAIN bytes : bytes[i] = NUL /\ i > 0} = zeros
        BY <1>1
    <2>2. 0 \in 0..n /\ 0 + 1 = 1
        BY <1>1
    <2> QED BY <2>1, <2>2, NulFound
<1>3. whole = IF user = 0 \/ user > UserMax + 1 THEN 0
              ELSE IF kind = "socks4" THEN user
              ELSE IF domain = 0 \/ domain - user > DomainMax + 1 THEN 0 ELSE domain
    BY DEF SocksEnd, NotFound
<1>4. ASSUME seen \in 1..n
      PROVE  /\ \/ FirstNul(read, seen) \in (seen + 1)..n /\ domain = FirstNul(read, seen)
                \/ /\ FirstNul(read, seen) = 0 /\ (domain = 0 \/ domain > n)
                   /\ domain \in Nat /\ domain <= len
    <2>1. user = seen /\ seen \in 0..n
        BY <1>1, <1>2, <1>4
    <2>2. user \in zeros /\ \A q \in zeros : user <= q
        <3>1. zeros \in SUBSET (Nat \ {0}) /\ user # 0
            BY <1>1, <1>4, <2>1
        <3> HIDE DEF zeros
        <3> QED BY <3>1, EarliestIs
    <2>3. zeros \ {user} = later
        <3> HIDE DEF user
        <3>1. \A q \in zeros : q # user <=> q > user
            BY <1>1, <2>2
        <3> QED BY <3>1
    <2>4. later = {i \in DOMAIN bytes : bytes[i] = NUL /\ i > seen}
        BY <2>1
    <2> HIDE DEF later, zeros, seen, n
    <2>5. \/ FirstNul(read, seen) \in (seen + 1)..n
             /\ Earliest({i \in DOMAIN bytes : bytes[i] = NUL /\ i > seen}) = FirstNul(read, seen)
          \/ FirstNul(read, seen) = 0
             /\ (Earliest({i \in DOMAIN bytes : bytes[i] = NUL /\ i > seen}) = 0
                   \/ Earliest({i \in DOMAIN bytes : bytes[i] = NUL /\ i > seen}) > n)
             /\ Earliest({i \in DOMAIN bytes : bytes[i] = NUL /\ i > seen}) \in Nat
             /\ Earliest({i \in DOMAIN bytes : bytes[i] = NUL /\ i > seen}) <= len
        BY <2>1, NulFound DEF n, len
    <2> QED BY <2>3, <2>4, <2>5
<1>5. end = IF kind = "socks4" \/ seen = 0 THEN seen ELSE FirstNul(read, seen)
    BY DEF SocksSeen
<1>6. SocksFits(kind, read) <=> seen - 1 <= UserMax /\ end - seen - 1 <= DomainMax
    BY DEF SocksFits
<1> DEFINE next == FirstNul(read, seen)
           fits == SocksFits(kind, read)
<1> HIDE DEF n, len, seen, user, domain, whole, end, next, fits
<1>7. CASE seen = 0
    <2>1. end = 0
        BY <1>5, <1>7
    <2>2. n > SocksMax \/ rest = <<>> => whole = 0
        BY <1>1, <1>2, <1>3, <1>7
    <2> QED BY <1>1, <2>1, <2>2 DEF n, end, whole
<1>8. CASE seen # 0 /\ kind = "socks4"
    <2>1. end = seen /\ user = seen /\ seen \in 1..n
        BY <1>2, <1>5, <1>8
    <2>2. fits <=> seen - 1 <= UserMax
        BY <1>1, <1>6, <2>1 DEF fits
    <2>3. whole = IF fits THEN end ELSE 0
        BY <1>1, <1>3, <1>8, <2>1, <2>2
    <2> QED BY <1>1, <1>8, <2>1, <2>3 DEF n, end, whole, fits
<1>9. CASE seen # 0 /\ kind = "socks4a"
    <2>1. end = next /\ user = seen /\ seen \in 1..n
        BY <1>2, <1>5, <1>9 DEF next
    <2>2. \/ next \in (seen + 1)..n /\ domain = next
          \/ next = 0 /\ (domain = 0 \/ domain > n) /\ domain \in Nat /\ domain <= len
        BY <1>4, <2>1 DEF next
    <2>3. ASSUME end # 0 PROVE end \in 1..n /\ whole = IF fits THEN end ELSE 0
        BY <1>1, <1>3, <1>6, <1>9, <2>1, <2>2, <2>3 DEF fits
    <2>4. ASSUME end = 0, n > SocksMax \/ rest = <<>> PROVE whole = 0
        BY <1>1, <1>3, <1>9, <2>1, <2>2, <2>4
    <2> QED BY <1>1, <2>3, <2>4 DEF n, end, whole, fits
<1> QED BY <1>7, <1>8, <1>9

-----------------------------------------------------------------------------
(* The inductive invariant: nothing is lost between what was taken, the     *)
(* buffer and the socket; up to start_pos no end of the headers is missed;  *)
(* and a verdict that was given is that on the whole request.               *)

Socks4Kinds == {"socks4", "socks4a"}
Reading == {"examine", "read"}

Progress ==
    /\ pc \in Reading => head = 0 /\ input.kind # "socks5"
    /\ pc \in Reading /\ input.kind \in Header =>
           /\ start_pos \in 0..Len(buf)
           /\ \A e \in 2..start_pos : ~EndsLine(buf, e)
           /\ pc = "read" => start_pos = Len(buf)
    /\ pc = "read" /\ input.kind \in Socks4Kinds => SocksSeen(input.kind, buf) = 0

Verdict ==
    /\ pc \in {"route", "routed"} /\ input.kind # "socks5" => head = End /\ head # 0
    /\ pc = "failed" => End = 0

RInv ==
    /\ input \in Inputs
    /\ pc \in Reading \union {"route", "routed", "failed"}
    /\ Split(input.bytes, buf, unread, head)
    /\ Progress
    /\ Verdict

LEMMA InputTypes ==
    ASSUME NEW asked \in Inputs
    PROVE  /\ asked.kind \in Kinds /\ asked.bytes \in Seq(STRING)
           /\ asked.kind \in {"connect", "plain"} => asked.bytes # <<>>
           /\ asked.dest \in Destination /\ asked.rules \in Seq(Seq(Pattern))
<1> QED BY RequestAssumption

LEMMA RequestInit == Init => RInv
<1> SUFFICES ASSUME Init PROVE RInv
    OBVIOUS
<1> DEFINE bytes == input.bytes
           len == Len(bytes)
           f == FirstByte
<1>1. /\ input \in Inputs /\ input.kind \in Kinds /\ bytes \in Seq(STRING) /\ head = 0 /\ start_pos = 0
      /\ buf = SubSeq(bytes, 1, f) /\ unread = SubSeq(bytes, f + 1, len)
      /\ pc = IF input.kind = "socks5" THEN "route" ELSE "examine"
    BY InputTypes DEF Init
<1>2. len \in Nat /\ f \in {0, 1} /\ f <= len
    <2>1. len \in Nat /\ (len = 0 => bytes = <<>>)
        BY <1>1, LenProperties, EmptySeq
    <2>2. f \in {0, 1} /\ (f = 1 => bytes # <<>>)
        BY <1>1, InputTypes DEF FirstByte
    <2> HIDE DEF f, len, bytes
    <2> QED BY <2>1, <2>2
<1> HIDE DEF f
<1>3. buf \in Seq(STRING) /\ Len(buf) = f /\ \A i \in 1..f : buf[i] = bytes[i]
    <2> HIDE DEF len
    <2>1. 1 \in 1..(len + 1) /\ f \in (1 - 1)..len
        BY <1>2
    <2>2. /\ SubSeq(bytes, 1, f) \in Seq(STRING) /\ Len(SubSeq(bytes, 1, f)) = f - 1 + 1
          /\ \A i \in 1..(f - 1 + 1) : SubSeq(bytes, 1, f)[i] = bytes[1 + i - 1]
        BY <1>1, <2>1, Part DEF len
    <2> HIDE DEF bytes
    <2> QED BY <1>1, <1>2, <2>2
<1>4. unread \in Seq(STRING) /\ Len(unread) = len - f /\ \A i \in 1..(len - f) : unread[i] = bytes[f + i]
    <2> HIDE DEF len
    <2>1. f + 1 \in 1..(len + 1) /\ len \in ((f + 1) - 1)..len
        BY <1>2
    <2>2. /\ SubSeq(bytes, f + 1, len) \in Seq(STRING)
          /\ Len(SubSeq(bytes, f + 1, len)) = len - (f + 1) + 1
          /\ \A i \in 1..(len - (f + 1) + 1) : SubSeq(bytes, f + 1, len)[i] = bytes[(f + 1) + i - 1]
        BY <1>1, <2>1, Part DEF len
    <2> HIDE DEF bytes
    <2> QED BY <1>1, <1>2, <2>2
<1>5. Split(bytes, buf, unread, head)
    <2> HIDE DEF bytes
    <2>1. 0 + f + (len - f) = len /\ \A i \in Int : 0 + i = i
        <3> HIDE DEF len
        <3> QED BY <1>2
    <2>2. \A i \in 1..f : buf[i] = bytes[0 + i]
        BY <1>2, <1>3
    <2>3. \A i \in 1..(len - f) : unread[i] = bytes[0 + f + i]
        BY <1>2, <1>4
    <2> QED BY <1>1, <1>3, <1>4, <2>1, <2>2, <2>3 DEF Split, len, bytes
<1>6. Progress /\ Verdict /\ pc \in {"route", "examine"}
    <2>1. 0 \in 0..Len(buf) /\ 2..0 = {}
        BY <1>2, <1>3
    <2> QED BY <1>1, <2>1 DEF Progress, Verdict, Reading
<1> QED BY <1>1, <1>5, <1>6 DEF RInv, Reading

LEMMA HeadersStep == RInv /\ ExamineHeaders => RInv'
<1> SUFFICES ASSUME RInv, ExamineHeaders PROVE RInv'
    OBVIOUS
<1> DEFINE end == find_header_separator(buf, start_pos)
<1>1. /\ pc = "examine" /\ input.kind \in Header /\ head = 0 /\ input' = input /\ unread' = unread
      /\ Split(input.bytes, buf, unread, 0)
      /\ start_pos \in 0..Len(buf) /\ \A e \in 2..start_pos : ~EndsLine(buf, e)
    BY DEF RInv, Progress, Reading, ExamineHeaders, Becomes
<1>2. /\ end \in 0..Len(buf) /\ Len(buf) \in Nat
      /\ end # 0 => HeadersEnd(input.bytes) = IF end > HeaderMax THEN 0 ELSE end
      /\ end = 0 => \A e \in 2..Len(buf) : ~EndsLine(buf, e)
      /\ end = 0 /\ (Len(buf) > HeaderMax \/ unread = <<>>) => HeadersEnd(input.bytes) = 0
    <2>1. Len(buf) \in Nat
        BY <1>1, LenProperties DEF Split
    <2> QED BY <1>1, <2>1, HeadersFound
<1>3. End = HeadersEnd(input.bytes) /\ End' = End
    BY <1>1 DEF End
<1> HIDE DEF end
<1>4. CASE end # 0 /\ ~(end > HeaderMax)
    <2>1. /\ pc' = "route" /\ head' = end /\ buf' = SubSeq(buf, end + 1, Len(buf))
        BY <1>4 DEF ExamineHeaders, Becomes, NotFound, end
    <2>2. Split(input.bytes, buf', unread, end)
        BY <1>1, <1>2, <2>1, TakenSplits
    <2> QED BY <1>1, <1>2, <1>3, <1>4, <2>1, <2>2 DEF RInv, Progress, Verdict, Reading
<1>5. ASSUME end = 0 \/ end > HeaderMax
      PROVE  /\ head' = 0 /\ pc' \in {"failed", "read"}
             /\ pc' = "failed" => End' = 0
             /\ pc' = "read" => end = 0 /\ start_pos' = Len(buf)
             /\ buf' = SubSeq(buf, 0 + 1, Len(buf))
    BY <1>2, <1>3, <1>5 DEF ExamineHeaders, Becomes, NotFound, end
<1>6. CASE end = 0 \/ end > HeaderMax
    <2>1. Split(input.bytes, buf', unread, 0)
        <3>1. 0 \in 0..Len(buf)
            BY <1>2
        <3> QED BY <1>1, <1>5, <1>6, <3>1, TakenSplits
    <2>2. buf' = buf
        BY <1>1, <1>5, <1>6, SubSeqFull DEF Split
    <2>3. input.kind \notin Socks4Kinds /\ input.kind # "socks5"
        BY <1>1 DEF Header, Socks4Kinds
    <2>4. Progress'
        BY <1>1, <1>2, <1>5, <1>6, <2>2, <2>3 DEF Progress, Reading
    <2>5. Verdict'
        BY <1>5, <1>6 DEF Verdict
    <2> QED BY <1>1, <1>5, <1>6, <2>1, <2>4, <2>5 DEF RInv, Reading
<1> QED BY <1>4, <1>6

LEMMA Socks4Step == RInv /\ ExamineSocks4 => RInv'
<1> SUFFICES ASSUME RInv, ExamineSocks4 PROVE RInv'
    OBVIOUS
<1> DEFINE end == SocksSeen(input.kind, buf)
           fits == SocksFits(input.kind, buf)
<1>1. /\ pc = "examine" /\ input.kind \in Socks4Kinds /\ head = 0 /\ input' = input /\ unread' = unread
      /\ Split(input.bytes, buf, unread, 0)
    BY DEF RInv, Progress, Reading, ExamineSocks4, Becomes, Socks4Kinds
<1>2. input.kind \notin Header /\ input.kind # "socks5"
    BY <1>1 DEF Header, Socks4Kinds
<1>3. End = SocksEnd(input.bytes, IF input.kind = "socks4" THEN 1 ELSE 2) /\ End' = End
    BY <1>1, <1>2 DEF End
<1>4. /\ end \in 0..Len(buf) /\ Len(buf) \in Nat
      /\ end # 0 => End = IF fits THEN end ELSE 0
      /\ end = 0 /\ (Len(buf) > SocksMax \/ unread = <<>>) => End = 0
    <2>1. Len(buf) \in Nat
        BY <1>1, LenProperties DEF Split
    <2> QED BY <1>1, <1>3, <2>1, SocksFound DEF Socks4Kinds
<1>5. IF end # 0 THEN Becomes(IF fits THEN "route" ELSE "failed", IF fits THEN end ELSE 0)
                 ELSE Becomes(IF Len(buf) > SocksMax THEN "failed" ELSE "read", 0)
    BY <1>1 DEF ExamineSocks4, SocksSeen, SocksFits, NotFound, Socks4Kinds
<1> HIDE DEF end, fits
<1>6. CASE end # 0 /\ fits
    <2>1. pc' = "route" /\ head' = end /\ buf' = SubSeq(buf, end + 1, Len(buf))
        BY <1>5, <1>6 DEF Becomes
    <2>2. Split(input.bytes, buf', unread, end)
        BY <1>1, <1>4, <2>1, TakenSplits
    <2> QED BY <1>1, <1>3, <1>4, <1>6, <2>1, <2>2 DEF RInv, Progress, Verdict, Reading
<1>7. CASE end = 0 \/ ~fits
    <2>1. /\ head' = 0 /\ pc' \in {"failed", "read"} /\ buf' = SubSeq(buf, 0 + 1, Len(buf))
          /\ pc' = "failed" => End' = 0
          /\ pc' = "read" => end = 0
        BY <1>3, <1>4, <1>5, <1>7 DEF Becomes
    <2>2. Split(input.bytes, buf', unread, 0)
        <3>1. 0 \in 0..Len(buf)
            BY <1>4
        <3> QED BY <1>1, <2>1, <3>1, TakenSplits
    <2>3. buf' = buf
        BY <1>1, <2>1, SubSeqFull DEF Split
    <2>4. Progress'
        BY <1>1, <1>2, <2>1, <2>3 DEF Progress, Reading, end
    <2>5. Verdict'
        BY <2>1 DEF Verdict
    <2> QED BY <1>1, <2>1, <2>2, <2>4, <2>5 DEF RInv, Reading
<1> QED BY <1>6, <1>7

LEMMA ReadStep == RInv /\ Read => RInv'
<1> SUFFICES ASSUME RInv, Read PROVE RInv'
    OBVIOUS
<1>1. /\ pc = "read" /\ pc' = "examine" /\ head = 0 /\ input.kind # "socks5"
      /\ UNCHANGED <<input, start_pos, head>>
      /\ Split(input.bytes, buf, unread, 0)
    BY DEF RInv, Progress, Reading, Read
<1>2. PICK n \in 1..Len(unread) :
          buf' = buf \o SubSeq(unread, 1, n) /\ unread' = SubSeq(unread, n + 1, Len(unread))
    BY DEF Read
<1>3. Split(input.bytes, buf', unread', 0) /\ Len(buf') = Len(buf) + n
    BY <1>1, <1>2, ReadSplits
<1>4. Len(buf) \in Nat /\ n \in Nat /\ \A i \in 1..Len(buf) : buf'[i] = buf[i]
    <2>1. Len(buf) \in Nat /\ Len(unread) \in Nat
        BY <1>1, LenProperties DEF Split
    <2>2. \A i \in 1..Len(buf) : i \in 1..Len(buf') /\ buf[i] = input.bytes[0 + i]
        BY <1>1, <1>2, <1>3, <2>1 DEF Split
    <2>3. \A i \in 1..Len(buf') : buf'[i] = input.bytes[0 + i]
        BY <1>3 DEF Split
    <2> QED BY <2>1, <2>2, <2>3
<1>5. ASSUME input.kind \in Header
      PROVE  start_pos \in 0..Len(buf') /\ \A e \in 2..start_pos : ~EndsLine(buf', e)
    <2>1. start_pos = Len(buf) /\ \A e \in 2..start_pos : ~EndsLine(buf, e)
        BY <1>1, <1>5 DEF RInv, Progress, Reading
    <2>2. ASSUME NEW e \in 2..Len(buf) PROVE EndsLine(buf', e) <=> EndsLine(buf, e)
        <3>1. e \in 1..Len(buf) /\ e - 1 \in 1..Len(buf) /\ (e > 2 => e - 2 \in 1..Len(buf))
            BY <1>4
        <3> QED BY <1>4, <3>1 DEF EndsLine
    <2> QED BY <1>3, <1>4, <2>1, <2>2
<1>6. Progress' /\ Verdict'
    BY <1>1, <1>5 DEF Progress, Verdict, Reading
<1> QED BY <1>1, <1>3, <1>6 DEF RInv, Reading

LEMMA EofStep == RInv /\ ReadEof => RInv'
<1> SUFFICES ASSUME RInv, ReadEof PROVE RInv'
    OBVIOUS
<1>1. /\ pc = "read" /\ pc' = "failed" /\ unread = <<>> /\ head = 0 /\ input.kind # "socks5"
      /\ UNCHANGED <<input, unread, buf, start_pos, head>>
      /\ input \in Inputs /\ Split(input.bytes, buf, unread, 0)
    BY DEF RInv, Progress, Reading, ReadEof
<1>2. ASSUME input.kind \in Header
      PROVE  End = 0
    <2>1. /\ start_pos = Len(buf) /\ start_pos \in 0..Len(buf)
          /\ \A e \in 2..start_pos : ~EndsLine(buf, e)
        BY <1>1, <1>2 DEF RInv, Progress, Reading
    <2>2. find_header_separator(buf, start_pos) = 0
        <3>1. buf \in Seq(STRING)
            BY <1>1 DEF Split
        <3>2. \/ find_header_separator(buf, start_pos) = 0
              \/ /\ find_header_separator(buf, start_pos) \in 2..Len(buf)
                 /\ EndsLine(buf, find_header_separator(buf, start_pos))
            BY <2>1, <3>1, FindsFirst
        <3> QED BY <2>1, <3>2
    <2>3. HeadersEnd(input.bytes) = 0
        BY <1>1, <2>1, <2>2, HeadersFound
    <2> QED BY <1>2, <2>3 DEF End
<1>3. ASSUME input.kind \notin Header
      PROVE  End = 0
    <2>1. input.kind \in Socks4Kinds
        BY <1>1, <1>3, InputTypes DEF Kinds, Header, Socks4Kinds
    <2>2. SocksSeen(input.kind, buf) = 0
        BY <1>1, <2>1 DEF RInv, Progress
    <2>3. SocksEnd(input.bytes, IF input.kind = "socks4" THEN 1 ELSE 2) = 0
        BY <1>1, <2>1, <2>2, SocksFound DEF Socks4Kinds
    <2> QED BY <1>3, <2>3 DEF End
<1>4. End = 0
    BY <1>2, <1>3
<1>5. Progress' /\ Verdict' /\ Split(input.bytes, buf, unread, head)'
    BY <1>1, <1>4 DEF Progress, Verdict, Reading, End
<1> QED BY <1>1, <1>5 DEF RInv, Reading

LEMMA RouteStep == RInv /\ Route => RInv'
<1> SUFFICES ASSUME RInv, Route PROVE RInv'
    OBVIOUS
<1>1. /\ pc = "route" /\ pc' = "routed" /\ UNCHANGED <<input, unread, buf, start_pos, head>>
    BY DEF Route
<1> QED BY <1>1 DEF RInv, Progress, Verdict, Reading, End

LEMMA RequestStep == RInv /\ [Next]_vars => RInv'
<1>1. RInv /\ UNCHANGED vars => RInv'
    BY DEF vars, RInv, Progress, Verdict, End
<1> QED BY <1>1, HeadersStep, Socks4Step, ReadStep, EofStep, RouteStep DEF Next

\* Nothing that was read is lost, and no end of a request is passed over,
\* whatever pieces the request arrives in.
THEOREM RequestInvariant == Spec => []RInv
<1> QED BY RequestInit, RequestStep, PTL DEF Spec

\* A request is taken at the same byte, or refused, as it would be in one piece,
\* and what follows it stays in order: for every request, every limit and every
\* way the network may cut it.
THEOREM TakenHoweverCut == Spec => []SameHoweverCut
<1>1. ASSUME RInv PROVE SameHoweverCut
    <2>1. buf \o unread = SubSeq(input.bytes, head + 1, Len(input.bytes))
        BY <1>1, SplitJoins DEF RInv
    <2> QED BY <1>1, <2>1 DEF RInv, Verdict, SameHoweverCut, NotFound
<1> QED BY <1>1, RequestInvariant, PTL

LEMMA RoutedStep == RInv /\ RoutedAlike /\ [Next]_vars => RoutedAlike'
<1> SUFFICES ASSUME RInv, RoutedAlike, [Next]_vars PROVE RoutedAlike'
    OBVIOUS
<1>1. CASE Route
    <2>1. /\ input' = input /\ input \in Inputs
          /\ input.kind # "answer" =>
                 rule' = Earliest({i \in DOMAIN input.rules :
                            Matches(input.rules[i], Host(input.kind, input.dest), Ip(input.kind, input.dest))})
        BY <1>1 DEF Route, RInv
    <2>2. ASSUME Host(input.kind, input.dest).is # "bracketed", NEW i \in DOMAIN input.rules
          PROVE  Matches(input.rules[i], Host(input.kind, input.dest), Ip(input.kind, input.dest))
                     <=> \E j \in DOMAIN input.rules[i] : Describes(input.rules[i][j], input.dest)
        <3>1. /\ input.kind \in Kinds /\ input.dest \in Destination
              /\ input.rules \in Seq(Seq(Pattern))
            BY <2>1, InputTypes
        <3>2. input.rules[i] \in Seq(Pattern)
            BY <3>1, ElementOfSeq, LenProperties
        <3> QED BY <2>2, <3>1, <3>2, RuleDescribes
    <2>3. ASSUME Host(input.kind, input.dest).is # "bracketed", input.kind # "answer"
          PROVE  rule' = Wanted
        <3>1. {i \in DOMAIN input.rules :
                  Matches(input.rules[i], Host(input.kind, input.dest), Ip(input.kind, input.dest))}
              = {i \in DOMAIN input.rules :
                  \E j \in DOMAIN input.rules[i] : Describes(input.rules[i][j], input.dest)}
            BY <2>2, <2>3
        <3> QED BY <2>1, <2>3, <3>1 DEF Wanted
    <2> QED BY <2>1, <2>3 DEF RoutedAlike, Wanted
<1>2. CASE ExamineHeaders \/ ExamineSocks4 \/ Read \/ ReadEof
    <2>1. pc' # "routed"
        BY <1>2 DEF ExamineHeaders, ExamineSocks4, Read, ReadEof, Becomes
    <2> QED BY <2>1 DEF RoutedAlike
<1>3. CASE UNCHANGED vars
    BY <1>3 DEF vars, RoutedAlike, Wanted
<1> QED BY <1>1, <1>2, <1>3 DEF Next

\* A destination is routed by the first rule that describes it, in whatever
\* protocol it is asked for, whether it comes as an address or as text: for all
\* rules and destinations but the version 6 addresses that a URI writes in
\* brackets.
THEOREM RoutingAgrees == Spec => []RoutedAlike
<1>1. Init => RoutedAlike
    BY DEF Init, RoutedAlike
<1> QED BY <1>1, RoutedStep, RequestInvariant, PTL DEF Spec
=============================================================================
