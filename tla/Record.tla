------------------------------ MODULE Record ------------------------------
(***************************************************************************)
(* The persisted record: how requests change it and how it is laid out on  *)
(* flash (proto/persist.rs, proto/network/provisioning.rs).                *)
(*                                                                         *)
(* Text is a value; "long" is a text no field has room for and "bad" a     *)
(* pairing code that is not six digits.  On flash a record is a sequence   *)
(* of tokens, one per tagged field, and its checksum is the very sequence  *)
(* it sums up.                                                             *)
(***************************************************************************)
EXTENDS Naturals, Sequences, SequencesExt, FiniteSetsExt

CONSTANTS None, MaxCredentials

ASSUME RecordAssumption == MaxCredentials \in Nat \ {0}

DefaultRecord ==
    [creds |-> <<>>, locos |-> <<>>, network |-> None, name |-> "LongFred", id |-> 0,
     host |-> "", lang |-> "En", chosen |-> FALSE, server |-> None, prog |-> FALSE,
     login |-> "", pin |-> "", code |-> "", mode |-> "Auto", roster |-> <<>>]

\* Lists whose entries may be anything, and the record: what else is in it is
\* passed on as it is.
IsList(s) == s \in Seq({s[i] : i \in DOMAIN s})
IsRoster(s) == IsList(s) /\ \A i \in DOMAIN s : s[i][1] \in Nat
IsRecord(r) ==
    /\ DOMAIN r = DOMAIN DefaultRecord /\ r = [f \in DOMAIN r |-> r[f]]
    /\ IsList(r.creds) /\ Len(r.creds) <= MaxCredentials
    /\ IsList(r.locos) /\ IsRoster(r.roster)
    /\ r.id \in Nat

---------------------------------------------------------------------------
(* Changes.                                                                *)

Fits(text) == text # "long"
Fit(text) == IF Fits(text) THEN text ELSE ""

\* The network used last is the last of the list; a full list forgets its first.
SetPassword(r, ssid, pw) ==
    LET known == {i \in DOMAIN r.creds : r.creds[i][1] = ssid}
        kept  == IF known # {} THEN RemoveAt(r.creds, Min(known))
                 ELSE IF Len(r.creds) = MaxCredentials THEN Tail(r.creds) ELSE r.creds
    IN  [r EXCEPT !.creds = Append(kept, <<Fit(ssid), Fit(pw)>>)]

\* Roster entries <<dcc address, name>>, sorted by address.  Two of one address
\* keep their order; the code puts them in the order of their names.
Before(a, b) == a[1] <= b[1]
Rank(entries, k) ==
    Cardinality({j \in DOMAIN entries :
                   IF j <= k THEN Before(entries[j], entries[k])
                   ELSE ~Before(entries[k], entries[j])})
SortRoster(entries) ==
    [i \in DOMAIN entries |-> entries[CHOOSE k \in DOMAIN entries : Rank(entries, k) = i]]

\* The record as it is read back: decoding sorts the roster.
Tidy(r) == [r EXCEPT !.roster = SortRoster(@)]

\* apply_settings_put changes the record field by field and stops at the first
\* that is refused: what it changed before stays changed, and a text without room
\* leaves its field empty.
Put(s, text, field) ==
    IF s.error \/ text = None THEN s
    ELSE [rec |-> [s.rec EXCEPT ![field] = Fit(text)], error |-> ~Fits(text)]

PutCode(s, code) ==
    IF s.error \/ code = None THEN s
    ELSE IF code \in {"bad", "long"} THEN [s EXCEPT !.error = TRUE]
    ELSE [s EXCEPT !.rec.code = code]

PutRoster(s, entries) ==
    IF s.error \/ entries = <<>> THEN s
    ELSE LET wrong == {i \in DOMAIN entries : ~Fits(entries[i][2])}
         IN  IF wrong = {} THEN [s EXCEPT !.rec.roster = SortRoster(entries)]
             ELSE [rec |-> [s.rec EXCEPT !.roster = SubSeq(entries, 1, Min(wrong) - 1)],
                   error |-> TRUE]

ApplySettingsPut(r, p) ==
    LET wifi  == IF p.ssid = None \/ p.password = None THEN r
                 ELSE SetPassword(r, p.ssid, p.password)
        host  == Put([rec |-> wifi, error |-> FALSE], p.hostname, "host")
        login == Put(host, p.login, "login")
        pin   == Put(login, p.pin, "pin")
        code  == PutCode(pin, p.code)
        flags == IF code.error THEN code
                 ELSE [code EXCEPT !.rec.prog = IF p.prog = None THEN @ ELSE p.prog,
                                   !.rec.mode = IF p.mode = None THEN @ ELSE p.mode]
    IN  PutRoster(flags, p.roster)

\* A request that names no field.
EmptyPut ==
    [ssid |-> None, password |-> None, hostname |-> None, login |-> None, pin |-> None,
     code |-> None, prog |-> None, mode |-> None, roster |-> <<>>]

---------------------------------------------------------------------------
(* Flash layout.                                                           *)

Opt(present, token) == IF present THEN <<token>> ELSE <<>>

Sealed(body) == Append(body, <<"crc", body>>)

Lists(r) ==
    [i \in DOMAIN r.creds |-> <<"cred", r.creds[i]>>]
        \o [i \in DOMAIN r.locos |-> <<"loco", r.locos[i]>>]

Header(r, version) == <<<<"head", version, Len(r.creds), Len(r.locos)>>>>

\* What the first firmware wrote: the two lists and no more.
EncodeV1(r) == Sealed(Header(r, 1) \o Lists(r))

\* Mutant of Fields: without a login the BigFred fields are left out.
FieldsByLogin(r) ==
    Opt(r.network # None, <<"net", r.network>>)
        \o Opt(TRUE, <<"dev", r.name, r.id>>)
        \o Opt(r.host # "", <<"host", r.host>>)
        \o Opt(TRUE, <<"lang", r.lang>>)
        \o Opt(TRUE, <<"chosen", r.chosen>>)
        \o Opt(r.server # None, <<"server", r.server>>)
        \o Opt(TRUE, <<"prog", r.prog>>)
        \o Opt(r.login # "", <<"bigfred", r.login, r.pin, r.code>>)
        \o Opt(TRUE, <<"roster", r.mode, r.roster>>)

\* The optional ones are left out when they say nothing.
Fields(r) ==
    Opt(r.network # None, <<"net", r.network>>)
        \o Opt(TRUE, <<"dev", r.name, r.id>>)
        \o Opt(r.host # "", <<"host", r.host>>)
        \o Opt(TRUE, <<"lang", r.lang>>)
        \o Opt(TRUE, <<"chosen", r.chosen>>)
        \o Opt(r.server # None, <<"server", r.server>>)
        \o Opt(TRUE, <<"prog", r.prog>>)
        \o Opt(r.login # "" \/ r.pin # "" \/ r.code # "",
               <<"bigfred", r.login, r.pin, r.code>>)
        \o Opt(TRUE, <<"roster", r.mode, r.roster>>)

Encode(r) == Sealed(Header(r, 5) \o Lists(r) \o Fields(r))

TailTags == {"net", "dev", "host", "lang", "chosen", "server", "prog", "bigfred", "roster"}

\* Where buf holds a checksum of all before it.
Sums(buf) == {i \in DOMAIN buf : buf[i][1] = "crc" /\ buf[i][2] = SubSeq(buf, 1, i - 1)}

\* The n-th part of the last token of that tag among those places of buf.
Field(buf, places, tag, n, default) ==
    LET tagged == {i \in places : buf[i][1] = tag}
    IN  IF tagged = {} THEN default ELSE buf[Max(tagged)][n]

\* What is read where no record is.
NoRecord == <<>>

\* Reading stops at the first token that sums up all before it: a record cut
\* short has none, so it is not a record, whatever it still holds.
Decode(buf) ==
    LET end    == Min(Sums(buf))
        head   == buf[1]
        lists  == 1 + head[3] + head[4]
        tail   == lists + 1 .. end - 1
        D      == DefaultRecord
    IN  IF Sums(buf) = {} THEN NoRecord
        ELSE IF head[1] # "head" \/ head[2] \notin 1..5 THEN NoRecord
        ELSE IF head[2] = 1 /\ end # lists + 1 THEN NoRecord
        ELSE IF \E i \in tail : buf[i][1] \notin TailTags THEN NoRecord
        ELSE [creds   |-> [i \in 1..head[3] |-> buf[1 + i][2]],
              locos   |-> [i \in 1..head[4] |-> buf[1 + head[3] + i][2]],
              network |-> Field(buf, tail, "net", 2, D.network),
              name    |-> Field(buf, tail, "dev", 2, D.name),
              id      |-> Field(buf, tail, "dev", 3, D.id),
              host    |-> Field(buf, tail, "host", 2, D.host),
              lang    |-> Field(buf, tail, "lang", 2, D.lang),
              chosen  |-> Field(buf, tail, "chosen", 2, D.chosen),
              server  |-> Field(buf, tail, "server", 2, D.server),
              prog    |-> Field(buf, tail, "prog", 2, D.prog),
              login   |-> Field(buf, tail, "bigfred", 2, D.login),
              pin     |-> Field(buf, tail, "bigfred", 3, D.pin),
              code    |-> IF head[2] >= 5 THEN Field(buf, tail, "bigfred", 4, D.code) ELSE D.code,
              mode    |-> Field(buf, tail, "roster", 2, D.mode),
              roster  |-> SortRoster(Field(buf, tail, "roster", 3, D.roster))]
=============================================================================
