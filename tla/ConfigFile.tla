----------------------------- MODULE ConfigFile -----------------------------
(***************************************************************************)
(* The configuration file, from its characters to the services a process   *)
(* is to know: CConfigFileReader reads it into a map, in pieces of what    *)
(* fits its buffer; NodeMgr::init then cuts the value of one key, a list   *)
(* of service types, into tokens in place and makes a ServiceNode for each *)
(* type it knows.                                                          *)
(***************************************************************************)
EXTENDS Integers, Sequences

CONSTANTS
  Chars,    \* the characters of files
  Digits,   \* those that atoi understands
  Files,    \* the files
  BufLen,   \* what fgets may store, with the terminator: 256
  MaxType,  \* MAX_SERVICE_TYPE
  Key,      \* the key that NodeMgr::init asks for ("service_type")
  Known,    \* the types CreateServiceNode knows
  None      \* model value: NULL

ConfigFileAssumption ==
  /\ Files \subseteq Seq(Chars)
  /\ BufLen \in Nat /\ BufLen > 2 /\ MaxType \in Nat \ {0}
  /\ Digits \subseteq Chars /\ "?" \notin Digits /\ Known \subseteq Seq(Digits)
  /\ None \notin Seq(Chars)

VARIABLES
  file,          \* its characters; "\n" is "LF", "\r" is "CR", a blank "SP"
  pos,           \* how many have been read
  m_config_map,  \* set of pairs, one for each key
  pc,            \* "load", then "loaded" or "none"; "cut" and "ready" in init
  p,             \* NodeMgr::init: the cursor in the value
  type,          \* where tokens begin
  m_serviceNode  \* the services, None, or Wild: malloc'ed and never set

Wild == <<"?">>

vars == <<file, pos, m_config_map, pc, p, type, m_serviceNode>>

Init ==
  /\ file \in Files
  /\ pos = 0 /\ m_config_map = {} /\ pc = "load"
  /\ p = 0 /\ type = <<>> /\ m_serviceNode = <<>>

MaxOf(S) == CHOOSE x \in S : \A y \in S : y <= x
MinOf(S) == CHOOSE x \in S : \A y \in S : x <= y

(* The first place of c in s, Len(s) + 1 if there is none.                 *)
Find(s, c) == MinOf({i \in 1..Len(s) : s[i] = c} \cup {Len(s) + 1})

Before(s, i) == SubSeq(s, 1, i - 1)
After(s, i) == SubSeq(s, i + 1, Len(s))

-----------------------------------------------------------------------------
(* CConfigFileReader                                                       *)

(* _TrimSpace: blanks in front, blanks and line ends behind.  (The scan for *)
(* the end does not stop at the beginning: for a key that is only a CR it  *)
(* reads what lies in front of the buffer.)                                *)
TrimSpace(s) ==
  LET I == {i \in 1..Len(s) : s[i] # "SP"}
      J == {j \in 1..Len(s) : s[j] \notin {"SP", "CR", "LF"}}
  IN IF J = {} THEN None ELSE SubSeq(s, MinOf(I), MaxOf(J))

(* Wrong version: a later line replaces an earlier one.                    *)
PutLast(map, k, v) == {m \in map : m[1] # k} \cup {<<k, v>>}

(* map::insert does nothing when the key is there.                         *)
Put(map, k, v) == IF \E m \in map : m[1] = k THEN map ELSE map \cup {<<k, v>>}

ParseLine(map, line) ==
  LET e == Find(line, "=")
      key == TrimSpace(Before(line, e))
      value == TrimSpace(After(line, e))
  IN IF e > Len(line) \/ key = None \/ value = None THEN map ELSE Put(map, key, value)

(* What fgets stores: up to and with the end of a line, or what fits.      *)
Piece ==
  LET rest == After(file, pos)
      n == MinOf({Find(rest, "LF"), Len(rest), BufLen - 1})
  IN SubSeq(rest, 1, n)

Chop(s) == IF s # <<>> /\ s[Len(s)] = "LF" THEN SubSeq(s, 1, Len(s) - 1) ELSE s

(* One round of _LoadFile's loop.                                          *)
LoadPiece ==
  /\ pc = "load" /\ pos < Len(file)
  /\ pos' = pos + Len(Piece)
  /\ LET line == Chop(Piece) IN
       m_config_map' = ParseLine(m_config_map, Before(line, Find(line, "#")))
  /\ UNCHANGED <<file, pc, p, type, m_serviceNode>>

Loaded ==
  /\ pc = "load" /\ pos = Len(file)
  /\ pc' = "loaded"
  /\ UNCHANGED <<file, pos, m_config_map, p, type, m_serviceNode>>

getConfigName(k) ==
  IF \E m \in m_config_map : m[1] = k
    THEN (CHOOSE m \in m_config_map : m[1] = k)[2]
    ELSE None

-----------------------------------------------------------------------------
(* NodeMgr::init                                                           *)

services == getConfigName(Key)

(* No such key: init returns.  Else the first token begins at once.        *)
GetServices ==
  /\ pc = "loaded"
  /\ IF services = None THEN pc' = "none" /\ UNCHANGED <<p, type>>
                        ELSE pc' = "cut" /\ p' = 1 /\ type' = <<1>>
  /\ UNCHANGED <<file, pos, m_config_map, m_serviceNode>>

(* services[Len(services) + 1] is the terminator.                          *)
InString(i) == i <= Len(services) + 1
Terminated == p = Len(services) + 1

(* The loop: at a blank, the next token begins behind all the blanks; then, *)
(* in every case, the cursor moves on.                                     *)
CutToken ==
  /\ pc = "cut" /\ InString(p) /\ ~Terminated /\ Len(type) < MaxType
  /\ IF services[p] = "SP"
       THEN LET q == MinOf({i \in p + 1..Len(services) : services[i] # "SP"}
                           \cup {Len(services) + 1}) IN
            type' = Append(type, q) /\ p' = q + 1
       ELSE p' = p + 1 /\ UNCHANGED type
  /\ UNCHANGED <<file, pos, m_config_map, pc, m_serviceNode>>

(* A token ends where a blank was overwritten.  atoi reads its digits.     *)
TokenAt(s, q) == LET rest == SubSeq(s, q, Len(s)) IN Before(rest, Find(rest, "SP"))

Atoi(s) ==
  SubSeq(s, 1, MaxOf({n \in 0..Len(s) : \A i \in 1..n : s[i] \in Digits}))

(* CreateServiceNode; without a service the entry is not written: what was  *)
(* in the memory before may be zero or not.                                *)
CreateServices ==
  /\ pc = "cut" /\ InString(p) /\ (Terminated \/ Len(type) = MaxType)
  /\ pc' = "ready"
  /\ m_serviceNode' \in
       {f \in [1..Len(type) -> Known \cup {None, Wild}] :
          \A i \in 1..Len(type) :
            LET t == Atoi(TokenAt(services, type[i])) IN
            IF t \in Known THEN f[i] = t ELSE f[i] \in {None, Wild}}
  /\ UNCHANGED <<file, pos, m_config_map, p, type>>

(* getServiceNode(sid): the first service that has it, NULL, or whatever a *)
(* stray pointer gives.                                                    *)
getServiceNode(sid) ==
  LET I == {i \in 1..Len(m_serviceNode) : m_serviceNode[i] \in {sid, Wild}}
  IN IF I = {} THEN None ELSE m_serviceNode[MinOf(I)]

Next == LoadPiece \/ Loaded \/ GetServices \/ CutToken \/ CreateServices

Spec == Init /\ [][Next]_vars

-----------------------------------------------------------------------------
(* Properties                                                              *)

(* Types; and each key has one value.                                      *)
TypeOK ==
  /\ file \in Seq(Chars) /\ pos \in 0..Len(file)
  /\ \A m \in m_config_map : m \in Seq(Chars) \X Seq(Chars)
  /\ \A m, n \in m_config_map : m[1] = n[1] => m = n
  /\ pc \in {"load", "loaded", "none", "cut", "ready"}
  /\ p \in Nat /\ type \in Seq(Nat)
  /\ \A i \in DOMAIN m_serviceNode : m_serviceNode[i] \in Known \cup {None, Wild}

(* A line of the file, from a to b, without its end.                       *)
IsLine(a, b) ==
  /\ a = 1 \/ file[a - 1] = "LF"
  /\ b = Len(file) \/ file[b + 1] = "LF"
  /\ \A i \in a..b : file[i] # "LF"

Line == {l \in (1..Len(file)) \X (1..Len(file)) : l[1] <= l[2] /\ IsLine(l[1], l[2])}

(* File position i is in front of the line's comment.                      *)
Bare(a, i) == \A j \in a..i : file[j] # "#"

(* The part between a and b without the blanks around it, if any.          *)
Core(a, b) ==
  {SubSeq(file, w[1], w[2]) : w \in
     {ij \in (a..b) \X (a..b) :
        /\ ij[1] <= ij[2]
        /\ file[ij[1]] # "SP" /\ \A k \in a..ij[1] - 1 : file[k] = "SP"
        /\ file[ij[2]] \notin {"SP", "CR"} /\ \A k \in ij[2] + 1..b : file[k] \in {"SP", "CR"}}}

(* The setting on a line, if any: what is before and after its first "=".  *)
Setting(a, b) ==
  UNION {Core(a, ec[1] - 1) \X Core(ec[1] + 1, ec[2]) : ec \in
           {x \in (a..b) \X (a..b) :
              /\ x[1] <= x[2]
              /\ Bare(a, x[2]) /\ (x[2] = b \/ file[x[2] + 1] = "#")
              /\ file[x[1]] = "=" /\ \A i \in a..x[1] - 1 : file[i] # "="}}

(* Each line fits the buffer.                                              *)
LinesFit == \A l \in Line : l[2] - l[1] + 1 < BufLen

(* The settings of the lines up to file position n; where a key is set     *)
(* again the first of its lines counts.                                    *)
Settings(n) ==
  UNION {{kv \in Setting(l[1], l[2]) :
            \A m \in Line : m[1] < l[1] => \A w \in Setting(m[1], m[2]) : w[1] # kv[1]}
         : l \in {k \in Line : k[2] <= n}}

(* The map holds the settings of the file: comments, blanks, line ends of  *)
(* either kind and lines without a setting leave nothing behind.           *)
MapIsFile == pc # "load" /\ LinesFit => m_config_map = Settings(Len(file))

(* init's loop has no check of its own: it never passes the terminator     *)
(* because the reader left no blank at the end of a value.                 *)
StaysInString == pc = "cut" => InString(p)

(* The words of the list.                                                  *)
IsWord(s, i, j) ==
  /\ i <= j /\ \A k \in i..j : s[k] # "SP"
  /\ i = 1 \/ s[i - 1] = "SP"
  /\ j = Len(s) \/ s[j + 1] = "SP"

Words(s) ==
  {SubSeq(s, w[1], w[2]) :
     w \in {ij \in (1..Len(s)) \X (1..Len(s)) : IsWord(s, ij[1], ij[2])}}

(* When all the types of the list are known, exactly they are found.       *)
ListedAreFound ==
  pc = "ready" /\ Len(type) < MaxType /\ {Atoi(w) : w \in Words(services)} \subseteq Known =>
    \A sid \in Known :
      getServiceNode(sid) = IF sid \in {Atoi(w) : w \in Words(services)} THEN sid ELSE None

(* ConfigFileReader.cpp:77: what begins with # is removed.                 *)
CommentsRemoved ==
  pc = "loaded" =>
    \A m \in m_config_map : \E l \in Line : \E i \in l[1]..l[2] : Bare(l[1], i) /\ file[i] = "="

(* NodeMgr.cpp:152: for a service that is not registered, NULL.            *)
UnregisteredIsNull == pc = "ready" => \A sid \in Known : getServiceNode(sid) # Wild
=============================================================================
