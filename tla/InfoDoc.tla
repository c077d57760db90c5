------------------------------ MODULE InfoDoc ------------------------------
(***************************************************************************)
(* The document GET /kt/sfu answers with, and what fetch_info makes of as  *)
(* much of it as arrives.                                                  *)
(*                                                                         *)
(* A response is a sequence of tokens: the status, the end of the head,    *)
(* then for each field its name (with the colon), its value and the quote, *)
(* comma or brace that ends the value.  A value is two tokens long, enough *)
(* for one that is cut.  A response may be cut between any two tokens.     *)
(***************************************************************************)
EXTENDS Sequences, FiniteSetsExt

CONSTANTS
  Relay,    \* the relay's URL
  OurAlpn,  \* SFU_ALPN of the client's build
  QadPort   \* the relay's QAD port

Name(key) == <<"name", key>>
EndToken == <<"end">>
FirstOf(v) == <<"first", v>>
LastOf(v) == <<"last", v>>
Value(v) == <<FirstOf(v), LastOf(v)>>
HeadEnd == <<"head end">>
Status(code) == <<"status", code>>

Field(key, v) == <<Name(key)>> \o Value(v) \o <<EndToken>>

\* sfu_info_json.
Document(sfu, alpn) ==
  Field("sfu", sfu) \o Field("relay", Relay) \o Field("alpn", alpn)
    \o Field("qad_port", QadPort)

\* The two answers of respond.
Found(sfu, alpn) == <<Status("200"), HeadEnd>> \o Document(sfu, alpn)
NotFound == <<Status("404"), HeadEnd>>

-----------------------------------------------------------------------------
\* str::find: where the first such token is, 0 if there is none.
Find(text, token) ==
  LET at == {i \in 1 .. Len(text) : text[i] = token}
  IN  IF at # {} THEN Min(at) ELSE 0

\* json_field: the value after the name, up to its end or that of the text;
\* Absent without the name.
Absent == <<EndToken>>

JsonField(text, key) ==
  LET named == Find(text, Name(key))
      rest == SubSeq(text, named + 1, Len(text))
      end == Find(rest, EndToken)
  IN  IF named = 0 THEN Absent
      ELSE IF end = 0 THEN rest
      ELSE SubSeq(rest, 1, end - 1)

Refused == [ok |-> FALSE]

\* Faulty: fields after the id may be missing.
ParseLenient(text) ==
  IF Len(JsonField(text, "sfu")) < 2 \/ JsonField(text, "sfu") = Absent
  THEN Refused
  ELSE [ok |-> TRUE, sfu |-> JsonField(text, "sfu"), relay |-> JsonField(text, "relay"),
        alpn |-> Value(OurAlpn)]

\* SfuInfo::parse.  An endpoint id has a fixed length; any part of a URL and
\* of a number passes for one, an empty one does not.  The port, which may be
\* missing, is left out of the result.
Parse(text) ==
  LET sfu == JsonField(text, "sfu")
      relay == JsonField(text, "relay")
      alpn == JsonField(text, "alpn")
      qad == JsonField(text, "qad_port")
  IN  IF Absent \in {sfu, relay, alpn} \/ Len(sfu) < 2 \/ <<>> \in {relay, qad}
      THEN Refused
      ELSE [ok |-> TRUE, sfu |-> sfu, relay |-> relay, alpn |-> alpn]

\* What fetch_info returns for the part of a response that arrived.
FetchInfo(response) ==
  LET head == Find(response, HeadEnd)
      info == Parse(SubSeq(response, head + 1, Len(response)))
  IN  IF head = 0 \/ response[1] # Status("200") \/ ~info.ok \/ info.alpn # Value(OurAlpn)
      THEN Refused
      ELSE info
=============================================================================
