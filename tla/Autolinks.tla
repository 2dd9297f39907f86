------------------------------- MODULE Autolinks -------------------------------
\* The addresses found in plain text: "www." and "scheme://", which the inline parser
\* looks for as it goes, and mentions and email addresses, which a pass over the
\* finished texts looks for.  A match is told by how much of the text is its.
EXTENDS Scanners

CONSTANTS
  MaxDomainDots,   \* MAX_DOMAIN_DOTS: a domain of more labels is not looked at closer
  MinName, MaxName \* the lengths of a name in a mention

ASSUME AutolinksAssumption == MaxDomainDots \in Nat /\ MinName \in Nat \ {0} /\ MaxName \in Nat

\* How many bytes from the i-th on are in S, and how many before it
CountFrom(s, i, S) == Min({n \in 0..Len(s) : Peek(s, i + n) \notin S})
CountBefore(s, i, S) == Min({n \in 0..i - 1 : n = i - 1 \/ s[i - 1 - n] \notin S})

HostChar(c) == c \notin Punct \cup SpaceChar \cup {End}

\* The bytes of the host name at the front of s
DomainEnd(s) ==
  LET Stops == {i \in 1..Len(s) : /\ ~HostChar(s[i])
                                  /\ s[i] \notin {"_", ".", "-"}
                                  /\ ~(s[i] = "\\" /\ i < Len(s))}
  IN  Min(Stops \cup {Len(s) + 1}) - 1

\* Whether one of the last two labels has an underscore
UnderscoredHost(domain) ==
  LET dots == {i \in DOMAIN domain : domain[i] = "."}
      last == Max({0} \cup dots)
      before == Max({0} \cup (dots \ {last}))
  IN  \E i \in before + 1..Len(domain) : domain[i] = "_"

check_domain(s, allow_short) ==
  LET domain == SubSeq(s, 1, DomainEnd(s))
      dots == Cardinality({i \in DOMAIN domain : domain[i] = "."})
  IN  IF dots > MaxDomainDots THEN Len(domain)
      ELSE IF UnderscoredHost(domain) \/ (dots = 0 /\ ~allow_short) THEN None
      ELSE Len(domain)

-------------------------------------------------------------------------------
(* Where an address ends: not at a "<", nor with punctuation, an entity or a       *)
(* closing bracket that has no opening one in it.                                  *)

PopIsolate == <<"E2", "81", "A9">>
Closers(relaxed) == {<<"(", ")">>} \cup (IF relaxed THEN {<<"[", "]">>, <<"{", "}">>} ELSE {})

CountOf(s, n, c) == Cardinality({i \in 1..n : s[i] = c})
LettersBefore(s, i) == CountBefore(s, i, Alpha)

RECURSIVE TrimEnd(_, _, _)
TrimEnd(s, n, relaxed) ==
  LET c == s[n]
      letters == LettersBefore(s, n)
      amp == n - letters - 1
      Unopened == \E b \in Closers(relaxed) : c = b[2] /\ CountOf(s, n, b[2]) > CountOf(s, n, b[1])
  IN  IF n = 0 THEN 0
      ELSE IF c \in CharSet("?!.,:*_~'\"") \/ Unopened THEN TrimEnd(s, n - 1, relaxed)
      ELSE IF c = ";" THEN TrimEnd(s, IF letters > 0 /\ amp > 0 /\ s[amp] = "&" THEN amp - 1 ELSE n - 1, relaxed)
      ELSE IF c = "A9" /\ SubSeq(s, n - 2, n) = PopIsolate THEN n - 3
      ELSE n

autolink_delim(s, link_end, relaxed) ==
  LET Angles == {i \in 1..link_end : s[i] = "<"}
  IN  TrimEnd(s, IF Angles = {} THEN link_end ELSE Min(Angles) - 1, relaxed)

-------------------------------------------------------------------------------
(* As the parser goes.  `dead' is where relaxed matching may begin again after a   *)
(* place that looks like the end of a link's text; 0 if there is none.             *)

Address(from, to, dead) == [from |-> from, to |-> to, dead |-> dead]
NoAddress == Address(0, 0, 0)

\* The address that begins at i and has at least `least' bytes from j on, rewound to `from'
AddressAt(s, from, j, least, relaxed) ==
  LET stop == Min({k \in j + least..Len(s) + 1 : k > Len(s) \/ s[k] \in SpaceChar})
      Parens == {k \in j + least..stop - 1 : relaxed /\ s[k] = "(" /\ s[k - 1] = "]"}
  IN  IF Parens # {} THEN Address(0, 0, Min(Parens))
      ELSE Address(from, j - 1 + autolink_delim(From(s, j), stop - j, relaxed), 0)

www_match(s, i, relaxed) ==
  LET host == check_domain(From(s, i + 4), relaxed)
  IN  IF \/ i > 1 /\ s[i - 1] \notin SpaceChar \cup CharSet("*_~([")
         \/ ~(i + 3 <= Len(s) /\ SubSeq(s, i, i + 3) = Chars("www."))
         \/ host = None
      THEN NoAddress
      ELSE AddressAt(s, i, i, host + 4, relaxed)

url_match(s, i, relaxed) ==
  LET n == LettersBefore(s, i)
      Scheme == \E w \in {"http", "https", "ftp"} :
                  Len(w) = n /\ \A k \in 1..n : Lower(s[i - n + k - 1]) = Chars(w)[k]
      host == check_domain(From(s, i + 3), TRUE)
  IN  IF \/ Len(s) - i < 3 \/ Peek(s, i + 1) # "/" \/ Peek(s, i + 2) # "/"
         \/ ~relaxed /\ ~(Scheme /\ HostChar(Peek(s, i + 3)))
         \/ host = None
      THEN NoAddress
      ELSE AddressAt(s, i - n, i, host + 3, relaxed)

-------------------------------------------------------------------------------
(* In the finished texts.                                                          *)

NameChar == Alnum \cup {"_"}
MentionDomain == Alnum \cup CharSet("_.-:")

\* The bytes of @name@host or !name@host at i, or None
lemmy_mention_match(s, i) ==
  LET name == CountFrom(s, i + 1, NameChar)
      at == i + 1 + name
      host == CountFrom(s, at + 1, MentionDomain)
      domain == SubSeq(s, at + 1, at + host)
  IN  IF /\ ~(i > 1 /\ s[i - 1] \in Alnum \cup {"["})
         /\ ~(s[i] = "!" /\ Peek(s, i + 1) = "[")
         /\ name \in MinName..MaxName /\ Peek(s, at) = "@"
         /\ host > 0 /\ \E k \in DOMAIN domain : domain[k] \in {".", ":"}
         /\ domain[1] # "." /\ domain[host] # "."
      THEN at + host - i + 1 ELSE None

\* The first mention: [from, to], or [from |-> 0]
FirstMention(s) ==
  LET At == {i \in DOMAIN s : s[i] \in {"@", "!"} /\ lemmy_mention_match(s, i) # None}
  IN  IF At = {} THEN [from |-> 0, to |-> 0]
      ELSE [from |-> Min(At), to |-> Min(At) + lemmy_mention_match(s, Min(At)) - 1]

\* How much of the text before the colon at i is a protocol of an address
Protocol(s, i, w) ==
  /\ LettersBefore(s, i) = Len(w)
  /\ SubSeq(s, i - Len(w), i - 1) = Chars(w)

\* How many bytes before the "@" are the address's, and whether "xmpp:" is among them
RECURSIVE Rewind(_, _, _)
Rewind(s, i, n) ==
  LET c == IF i - n - 1 < 1 THEN End ELSE s[i - n - 1]
  IN  IF \/ c \in Alnum \cup CharSet(".+-_")
         \/ c = ":" /\ (Protocol(s, i - n - 1, "mailto") \/ Protocol(s, i - n - 1, "xmpp"))
      THEN Rewind(s, i, n + 1) ELSE n

email_match(s, i, relaxed) ==
  LET n == Rewind(s, i, 0)
      xmpp == \E k \in i - n..i - 1 : s[k] = ":" /\ Protocol(s, k, "xmpp")
      Goes(k) == \/ s[k] \in Alnum \cup {"-", "_"}
                 \/ s[k] = "." /\ Peek(s, k + 1) \in Alnum
                 \/ s[k] = "/" /\ xmpp
      stop == Min({k \in i + 1..Len(s) + 1 : k > Len(s) \/ ~Goes(k)})
      to == i - 1 + autolink_delim(From(s, i), stop - i, relaxed)
  IN  IF \/ n = 0 \/ stop - i < 2 \/ Peek(s, stop) = "@"
         \/ ~\E k \in i + 1..stop - 1 : s[k] = "."
         \/ s[stop - 1] \notin Alpha \cup {"."}
         \/ to < i
      THEN [from |-> 0, to |-> 0]
      ELSE [from |-> i - n, to |-> to]

\* The first address, not one between brackets unless relaxed
find_email_autolink(s, relaxed) ==
  LET Depth(i) == CountOf(s, i, "[") - CountOf(s, i, "]")
      Found == {email_match(s, i, relaxed) : i \in {k \in DOMAIN s : s[k] = "@" /\ (relaxed \/ Depth(k) <= 0)}}
      First(es) == IF es = {} THEN [from |-> 0, to |-> 0] ELSE CHOOSE e \in es : \A f \in es : e.to <= f.to
  IN  First({e \in Found : e.from # 0})
===============================================================================
