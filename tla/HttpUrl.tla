------------------------------- MODULE HttpUrl -------------------------------
(***************************************************************************)
(* http_parser_parse_url: one scan finds the fields of a URL, a second one *)
(* over the host finds user, host and port.  Offsets are 1-based.  The     *)
(* URL is not terminated: behind it lies whatever follows in the buffer.   *)
(***************************************************************************)
EXTENDS Integers, Sequences, SequencesExt

CONSTANTS
  Chars,    \* the characters that URLs are made of
  MaxUrl,   \* bound: the length of a URL, without a schema of one letter
  MaxPort   \* 0xffff

UrlAssumption == MaxPort \in Nat

VARIABLES
  url,      \* the characters scanned so far
  connect,  \* is_connect
  s,        \* the state of the scan
  field,    \* field_set, and field_data of each member: [off, len]
  old_uf,
  found_at,
  hs,       \* the state of the scan over the host, "none" before it
  p,        \* its place in the URL ...
  buflen,   \* ... and where it ends
  result,   \* "none" before the end, then "ok" or "error"
  port

vars == <<url, connect, s, field, old_uf, found_at, hs, p, buflen, result, port>>

Alpha == {"a"}
Num == {"0", "1", "9"}
HostChar == Alpha \cup Num \cup {"."}
UserChar == HostChar \cup {"%", ":", ";"}
UrlChar == UserChar \cup {"/", "@", "[", "]"}
Hex == Alpha \cup Num

-----------------------------------------------------------------------------
(* The first scan                                                          *)

QueryChar(c) ==
  CASE c \in UrlChar \cup {"?"} -> "query" [] c = "#" -> "fragment_start" [] OTHER -> "dead"

ServerChar(t, c) ==
  CASE c = "/" -> "path" [] c = "?" -> "query_start"
    [] c = "@" -> IF t = "server_with_at" THEN "dead" ELSE "server_with_at"
    [] c \in UserChar \cup {"[", "]"} -> "server"
    [] OTHER -> "dead"

UrlStep(t, c) ==
  CASE t = "spaces_before_url" ->
         CASE c = "/" -> "path" [] c \in Alpha -> "schema" [] OTHER -> "dead"
    [] t = "schema" ->
         CASE c \in Alpha -> "schema" [] c = ":" -> "schema_slash" [] OTHER -> "dead"
    [] t = "schema_slash" -> IF c = "/" THEN "schema_slash_slash" ELSE "dead"
    [] t = "schema_slash_slash" -> IF c = "/" THEN "server_start" ELSE "dead"
    [] t \in {"server_start", "server", "server_with_at"} -> ServerChar(t, c)
    [] t = "path" ->
         CASE c \in UrlChar -> "path" [] c = "?" -> "query_start" [] c = "#" -> "fragment_start"
           [] OTHER -> "dead"
    [] t \in {"query_start", "query"} -> QueryChar(c)
    [] t = "fragment_start" -> IF c = "#" THEN t ELSE "fragment"
    [] OTHER -> "fragment"

Uf(t) == IF t = "server_with_at" THEN "server" ELSE t
Delimiters == {"schema_slash", "schema_slash_slash", "server_start", "query_start", "fragment_start"}

GrowField(t) ==
  IF old_uf = t THEN [field EXCEPT ![t].len = @ + 1]
  ELSE [field EXCEPT ![t] = [off |-> Len(url) + 1, len |-> 1]]

Fields == {"schema", "server", "port", "path", "query", "fragment", "userinfo"}

Init ==
  /\ url = <<>> /\ connect \in BOOLEAN
  /\ s = IF connect THEN "server_start" ELSE "spaces_before_url"
  /\ field = [t \in Fields |-> [off |-> 0, len |-> 0]] \* len = 0: not in field_set
  /\ old_uf = "none" /\ found_at = FALSE
  /\ hs = "none" /\ p = 0 /\ buflen = 0 /\ result = "none" /\ port = 0

Set(f) == {t \in Fields : f[t].len > 0}
Room == Len(url) < IF "schema" \in Set(field) THEN MaxUrl + 4 ELSE MaxUrl

Scan ==
  /\ result = "none" /\ hs = "none" /\ Room
  /\ \E c \in Chars :
       LET t == UrlStep(s, c) IN
       /\ url' = Append(url, c) /\ s' = t
       /\ result' = IF t = "dead" THEN "error" ELSE "none"
       /\ found_at' = (found_at \/ t = "server_with_at")
       /\ IF t \in Delimiters \cup {"dead"}
            THEN UNCHANGED <<field, old_uf>>
            ELSE field' = GrowField(Uf(t)) /\ old_uf' = Uf(t)
  /\ UNCHANGED <<connect, hs, p, buflen, port>>

(* The URL has ended: its host is looked at, if it has one.                *)
ScanEnds ==
  LET host == field["server"] IN
  /\ result = "none" /\ hs = "none"
  /\ IF "server" \in Set(field)
       THEN /\ hs' = IF found_at THEN "userinfo_start" ELSE "host_start"
            /\ p' = host.off /\ buflen' = host.off + host.len
            /\ field' = [field EXCEPT !["server"].len = 0]
            /\ UNCHANGED result
       ELSE /\ hs' = "no_host"
            /\ result' = IF "schema" \in Set(field) THEN "error" ELSE "none"
            /\ UNCHANGED <<p, buflen, field>>
  /\ UNCHANGED <<url, connect, s, old_uf, found_at, port>>

-----------------------------------------------------------------------------
(* The second scan                                                         *)

HostStep(t, c) ==
  CASE t \in {"userinfo", "userinfo_start"} ->
         CASE c = "@" -> "host_start" [] c \in UserChar -> "userinfo" [] OTHER -> "dead"
    [] t = "host_start" ->
         CASE c = "[" -> "v6_start" [] c \in HostChar -> "host" [] OTHER -> "dead"
    [] t = "host" ->
         CASE c \in HostChar -> "host" [] c = ":" -> "port_start" [] OTHER -> "dead"
    [] t = "v6_end" -> IF c = ":" THEN "port_start" ELSE "dead"
    [] t \in {"v6", "v6_start"} ->
         CASE c = "]" /\ t = "v6" -> "v6_end" [] c \in Hex \cup {":", "."} -> "v6"
           [] c = "%" /\ t = "v6" -> "zone_start" [] OTHER -> "dead"
    [] t \in {"zone", "zone_start"} ->
         CASE c = "]" /\ t = "zone" -> "v6_end" [] c \in Alpha \cup Num \cup {"%", "."} -> "zone"
           [] OTHER -> "dead"
    [] OTHER -> IF c \in Num THEN "port" ELSE "dead" \* port_start, port

(* The field a character of the host belongs to.                           *)
HostField(t) ==
  CASE t \in {"host", "v6", "zone_start", "zone"} -> "server"
    [] t \in {"port", "userinfo"} -> t
    [] OTHER -> "none"

GrowHost(t) ==
  LET uf == HostField(t) IN
  CASE uf = "none" -> field
    [] uf # "none" /\ t # hs /\ t \in {"host", "v6", "port", "userinfo"} ->
         [field EXCEPT ![uf] = [off |-> p, len |-> 1]]
    [] OTHER -> [field EXCEPT ![uf].len = @ + 1]

HostScan ==
  LET t == HostStep(hs, url[p]) IN
  /\ result = "none" /\ p < buflen
  /\ hs' = t /\ p' = p + 1 /\ field' = GrowHost(t)
  /\ result' = IF t = "dead" THEN "error" ELSE "none"
  /\ UNCHANGED <<url, connect, s, old_uf, found_at, buflen, port>>

(* strtoul reads digits to the end of the URL and beyond.                  *)
Digit(c) == CASE c = "1" -> 1 [] c = "9" -> 9 [] OTHER -> 0
Number(cs) ==
  FoldLeft(LAMBDA n, c : IF n.over \/ c \notin Num THEN [n EXCEPT !.over = TRUE]
                         ELSE [n EXCEPT !.v = @ * 10 + Digit(c)],
           [v |-> 0, over |-> FALSE], cs).v
PortAt(off, behind) == Number(SubSeq(Append(url, behind), off, Len(url) + 1))

(* Wrong version: the host decides, not the end of the scan over it.       *)
HostEndsAnywhere == TRUE

HostEnds == hs \in {"host", "v6_end", "port", "no_host"}

PortFits(v) == v \in 0..MaxPort

(* The end of the host: the checks on the fields that are set.             *)
End ==
  /\ result = "none" /\ hs # "none" /\ p = buflen
  /\ \E behind \in Chars :
     LET ok == HostEnds /\ (connect => Set(field) = {"server", "port"})
         v == IF ok /\ "port" \in Set(field) THEN PortAt(field["port"].off, behind) ELSE 0
     IN /\ result' = IF ok /\ PortFits(v) THEN "ok" ELSE "error"
        /\ port' = IF ok /\ PortFits(v) THEN v ELSE 0
  /\ UNCHANGED <<url, connect, s, field, old_uf, found_at, hs, p, buflen>>

Next == Scan \/ ScanEnds \/ HostScan \/ End

Spec == Init /\ [][Next]_vars

-----------------------------------------------------------------------------
(* Properties                                                              *)

TypeOK ==
  /\ result \in {"none", "ok", "error"} /\ port \in 0..MaxPort
  /\ \A t \in Set(field) : field[t].off \in 1..Len(url) /\ field[t].len \in 1..Len(url)

Text(t) == SubSeq(url, field[t].off, field[t].off + field[t].len - 1)
Has(t) == t \in Set(field)
Part(before, t, after) == IF Has(t) THEN before \o Text(t) \o after ELSE <<>>

(* Put together again, the fields are the URL, up to an empty user, query  *)
(* or fragment: no field has a wrong offset or length, after either scan,  *)
(* and nothing is in none of them.                                         *)
Joined(user, query, fragment, open, close) ==
  Part(<<>>, "schema", <<":", "/", "/">>) \o Part(<<>>, "userinfo", <<>>) \o user
    \o Part(open, "server", close) \o Part(<<":">>, "port", <<>>) \o Part(<<>>, "path", <<>>)
    \o query \o Part(<<>>, "query", <<>>) \o fragment \o Part(<<>>, "fragment", <<>>)

FieldsMakeUrl ==
  result = "ok" =>
    \E user \in {<<>>, <<"@">>}, query \in {<<>>, <<"?">>}, n \in 0..Len(url), v6 \in BOOLEAN :
      url = Joined(user, query, [i \in 1..n |-> "#"],
                   IF v6 THEN <<"[">> ELSE <<>>, IF v6 THEN <<"]">> ELSE <<>>)

(* No field holds what would begin the next one.                           *)
FieldsArePure ==
  result = "ok" =>
    /\ \A i \in DOMAIN Text("server") : Text("server")[i] \notin {"@", "/", "?", "#", "[", "]"}
    /\ \A i \in DOMAIN Text("path") : Text("path")[i] \notin {"?", "#"}
    /\ \A i \in DOMAIN Text("query") : Text("query")[i] # "#"
    /\ \A i \in DOMAIN Text("port") : Text("port")[i] \in Num
    /\ "userinfo" \in Set(field) => "server" \in Set(field)

(* A URL for CONNECT is a host and a port, and any other one with a schema *)
(* names a host.                                                           *)
HostIsPresent ==
  result = "ok" => IF connect THEN Set(field) = {"server", "port"}
                   ELSE Has("schema") => Has("server")

(* "we've already validated the string" (HttpParser.cpp:2473): the port    *)
(* is the number in its field.                                             *)
PortIsItsField == result = "ok" /\ Has("port") => port = Number(Text("port"))
=============================================================================
