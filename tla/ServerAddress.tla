----------------------------- MODULE ServerAddress -----------------------------
(***************************************************************************)
(* The parser of `holler join --server` and the URL it is rendered back to     *)
(* (src/src/server_address.rs).  An input is a sequence of symbols: a scheme   *)
(* word, "://", a host word, the four marks, and two numbers, of which the     *)
(* second does not fit 16 bits, nor do two numbers run together.              *)
(***************************************************************************)
EXTENDS Integers, Sequences, FiniteSets

CONSTANT MaxTyped  \* bound: symbols in an input

Symbols == {"ws", "http", "://", "h", "[", "]", ":", "/", "41000", "99999"}
DEFAULT_PORT == "41807"

VARIABLES
  input,   \* external: what the operator has typed
  parsed,  \* what join made of it
  server   \* the URL of the credential it saved

vars == <<input, parsed, server>>

Failed(why) == [ok |-> FALSE, why |-> why]
Address(scheme, host, port) == [ok |-> TRUE, scheme |-> scheme, host |-> host, port |-> port]
NotYet == Failed("not yet")

Init == input = <<>> /\ parsed = NotYet /\ server = <<>>

-------------------------------------------------------------------------------
Has(s, x) == \E i \in 1..Len(s) : s[i] = x
Count(s, x) == Cardinality({i \in 1..Len(s) : s[i] = x})
\* split_once: what is before and after the first x.
First(s, x) == CHOOSE i \in 1..Len(s) : s[i] = x /\ \A j \in 1..(i - 1) : s[j] # x
Before(s, x) == SubSeq(s, 1, First(s, x) - 1)
After(s, x)  == SubSeq(s, First(s, x) + 1, Len(s))
\* "://" has a colon of its own.
Colons(s) == Count(s, ":") + Count(s, "://")

ParsePort(s) == s \in {<<"41000">>, <<DEFAULT_PORT>>}

\* An authority that starts with "[".
ParseBracketed(scheme, authority) ==
  LET inside == Tail(authority) IN
    IF ~Has(inside, "]") THEN Failed("UnterminatedIpv6Bracket")
    ELSE LET host == Before(inside, "]")
             rest == After(inside, "]")
         IN CASE host = <<>> -> Failed("EmptyHost")
              [] host # <<>> /\ rest = <<>> -> Address(scheme, host, DEFAULT_PORT)
              [] host # <<>> /\ rest # <<>> /\ rest[1] = ":" ->
                   IF ParsePort(Tail(rest)) THEN Address(scheme, host, rest[2])
                                            ELSE Failed("InvalidPort")
              [] OTHER -> Failed("TrailingContent")

\* Any other; one that is "://" has its colon first.
ParsePlain(scheme, authority) ==
  CASE Colons(authority) = 0 -> Address(scheme, authority, DEFAULT_PORT)
    [] Colons(authority) = 1 /\ Has(authority, ":") ->
         IF Before(authority, ":") = <<>> THEN Failed("EmptyHost")
         ELSE IF ParsePort(After(authority, ":"))
              THEN Address(scheme, Before(authority, ":"), After(authority, ":")[1])
              ELSE Failed("InvalidPort")
    [] Colons(authority) = 1 /\ Has(authority, "://") ->
         IF authority[1] = "://" THEN Failed("EmptyHost") ELSE Failed("InvalidPort")
    [] OTHER -> Failed("UnbracketedIpv6")

\* ServerAddress::parse.
Parse(text) ==
  IF ~Has(text, "://") THEN Failed("MissingScheme")
  ELSE LET authority == After(text, "://") IN
         CASE Before(text, "://") # <<"ws">> -> Failed("UnsupportedScheme")
           [] Before(text, "://") = <<"ws">> /\ authority = <<>> -> Failed("EmptyHost")
           [] Before(text, "://") = <<"ws">> /\ authority # <<>> /\ authority[1] = "[" ->
                ParseBracketed("ws", authority)
           [] OTHER -> ParsePlain("ws", authority)

\* Mutant: an IPv6 literal is rendered without brackets.
ToCanonicalUrlBare(a) == <<a.scheme, "://">> \o a.host \o <<":", a.port>>

ToCanonicalUrl(a) ==
  <<a.scheme, "://">> \o (IF Colons(a.host) > 0 THEN <<"[">> \o a.host \o <<"]">> ELSE a.host)
    \o <<":", a.port>>

-------------------------------------------------------------------------------
Type(x) ==
  /\ parsed = NotYet /\ Len(input) < MaxTyped
  /\ input' = Append(input, x)
  /\ UNCHANGED <<parsed, server>>

\* run_join parses the address and keeps its canonical URL.
Join ==
  /\ parsed = NotYet
  /\ parsed' = Parse(input)
  /\ server' = IF Parse(input).ok THEN ToCanonicalUrl(Parse(input)) ELSE server
  /\ UNCHANGED input

Next == Join \/ \E x \in Symbols : Type(x)

Spec == Init /\ [][Next]_vars

-------------------------------------------------------------------------------
\* A port is always known, and a host is there; brackets are the only way to a colon in it.
TypeOK ==
  /\ input \in Seq(Symbols)
  /\ parsed.ok => /\ parsed.host # <<>> /\ parsed.port \in {"41000", DEFAULT_PORT}
                  /\ Colons(parsed.host) > 0 => input[3] = "["

\* The URL that join keeps and run dials is the address that was typed: it parses to the
\* same host and port (server_address.rs:148-156), unless the host starts with a bracket.
RoundTrip ==
  (parsed.ok /\ parsed.host[1] # "[") => Parse(server) = parsed
===============================================================================
