--------------------------- MODULE OutboundFetch ---------------------------
(***************************************************************************)
(* fetch_url (app/outbound.py): every hop of a fetch is validated, its name *)
(* resolved once and the connection pinned to the address that was checked, *)
(* while the DNS answers for a name change and sites redirect where they    *)
(* like.                                                                    *)
(*                                                                         *)
(* The abstraction.  An address is the class that ipaddress gives its       *)
(* canonical form (a mapped IPv4 address is that address), and whether it   *)
(* is in the list of metadata services.  A URL is whether its form passes   *)
(* (scheme, no credentials, no fragment, ...), its host, which is a literal *)
(* address or a name, and whether its port is among the allowed ones.       *)
(***************************************************************************)
EXTENDS Naturals

CONSTANTS
  Address,       \* the addresses of an instance
  Name,          \* a host name, with whatever DNS says of it
  Localhost,     \* localhost, and all below it
  None,          \* no address
  MaxRedirects,  \* max_redirects: 3
  MaxBytes       \* max_bytes; 0 reads one byte and returns none

Class == {"global", "multicast", "shared", "private", "loopback",
          "link-local", "unspecified", "reserved", "unassigned"}

ASSUME FetchAssumption ==
  /\ Address \subseteq [class : Class, metadata : BOOLEAN]
  /\ {Name, Localhost, None} \intersect Address = {}
  /\ Name # Localhost
  /\ MaxRedirects \in Nat
  /\ MaxBytes \in Nat

FetchUrl == [form : BOOLEAN, host : Address \union {Name, Localhost}, port : BOOLEAN]

(* An answer that is not a redirect: how long it is on the wire, its        *)
(* encoding, and what comes out of a gzip stream, which may be cut short.   *)
Length == 0..(MaxBytes + 2)
Response == [raw : Length, encoding : {"identity", "gzip", "other"},
             plain : Length, whole : BOOLEAN]

VARIABLES
  private,   \* allow_private
  dns,       \* what the name resolves to now
  stage,     \* where the fetch stands
  url,       \* current_url
  hops,      \* redirect_count
  target,    \* target_ip and whether the port is allowed, as validated
  answers,   \* history: all addresses that validation looked at
  wire,      \* the address of the open connection
  outcome,   \* what fetch_url returned or raised
  body       \* the length of the body it returned

fetchvars == <<private, dns, stage, url, hops, target, answers, wire, outcome, body>>

FetchInit ==
  /\ private \in BOOLEAN
  /\ dns \in SUBSET Address
  /\ stage = "validate"
  /\ url \in FetchUrl
  /\ hops = 0
  /\ target = None
  /\ answers = {}
  /\ wire = None
  /\ outcome = "none"
  /\ body = 0

-----------------------------------------------------------------------------
(* _permitted_address; ipaddress calls a multicast address global, and a    *)
(* reserved one too if nobody has set it aside as private ("unassigned");   *)
(* the shared space of carriers is neither global nor private.              *)
PermittedPrivate(a) ==
  a.class \notin {"unspecified", "multicast", "link-local", "reserved", "unassigned"}
Permitted(a) ==
  /\ ~a.metadata
  /\ IF private THEN PermittedPrivate(a) ELSE a.class \in {"global", "multicast", "unassigned"}

Loopback == {a \in Address : a.class = "loopback"}

(* What validate_outbound_url checks: a literal, or all a name resolves to. *)
Resolved(host) ==
  CASE host = Name      -> dns
    [] host = Localhost -> Loopback
    [] OTHER              -> {host}

AllPermitted(found) == \A a \in found : Permitted(a)

Passes(u) ==
  /\ u.form /\ u.port
  /\ u.host = Localhost => private
  /\ Resolved(u.host) # {}
  /\ AllPermitted(Resolved(u.host))

End(what) ==
  /\ stage' = "done"
  /\ outcome' = what
  /\ wire' = None

(* The first of the addresses, in whatever order they came.                 *)
Validate ==
  /\ stage = "validate"
  /\ \/ /\ Passes(url)
        /\ target' \in Resolved(url.host)
        /\ answers' = Resolved(url.host)
        /\ stage' = "connect"
        /\ UNCHANGED <<outcome, wire>>
     \/ /\ ~Passes(url)
        /\ End("UnsafeURLError")
        /\ UNCHANGED <<target, answers>>
  /\ UNCHANGED <<private, dns, url, hops, body>>

(* The pinned connection, and its request.                                  *)
Unpinned == IF url.host = Name THEN dns ELSE {target}
Pinned == {target}
Connect ==
  /\ stage = "connect"
  /\ \/ /\ wire' \in Pinned
        /\ stage' = "connected"
        /\ UNCHANGED outcome
     \/ End("FetchError")
  /\ UNCHANGED <<private, dns, url, hops, target, answers, body>>

(* A redirect: its Location is joined with the URL, which raises ValueError *)
(* for one that cannot be parsed.                                           *)
MayFollowAlways == TRUE
MayFollow == hops < MaxRedirects
Redirect ==
  /\ stage = "connected"
  /\ \/ /\ MayFollow
        /\ \E next \in FetchUrl : url' = next
        /\ hops' = IF hops < MaxRedirects THEN hops + 1 ELSE hops
        /\ stage' = "validate"
        /\ wire' = None
        /\ UNCHANGED outcome
     \/ /\ MayFollow
        /\ End("ValueError")
        /\ UNCHANGED <<url, hops>>
     \/ /\ End("FetchError")    \* no Location, or one too many
        /\ UNCHANGED <<url, hops>>
  /\ UNCHANGED <<private, dns, target, answers, body>>

(* _read_limited: at most one byte more than allowed is read, and as much   *)
(* decompressed.                                                            *)
DecodedAnyLength(r) == r.whole
Decoded(r) == r.plain <= MaxBytes /\ r.whole
Readable(r) ==
  \/ MaxBytes = 0
  \/ /\ r.raw <= MaxBytes
     /\ \/ r.encoding = "identity"
        \/ r.encoding = "gzip" /\ Decoded(r)

BodyLength(r) ==
  IF MaxBytes = 0 THEN 0 ELSE IF r.encoding = "identity" THEN r.raw ELSE r.plain

Respond ==
  /\ stage = "connected"
  /\ \/ \E r \in Response :
          \/ Readable(r) /\ body' = BodyLength(r) /\ End("FetchResult")
          \/ ~Readable(r) /\ End("FetchError") /\ UNCHANGED body
     \/ End("FetchError") /\ UNCHANGED body    \* OSError, HTTPException
  /\ UNCHANGED <<private, dns, url, hops, target, answers>>

(* Whoever owns the name lets it resolve to something else.                 *)
ChangeDns ==
  /\ stage # "done"
  /\ dns' \in SUBSET Address
  /\ UNCHANGED <<private, stage, url, hops, target, answers, wire, outcome, body>>

Fetch == Validate \/ Connect \/ Redirect \/ Respond

FetchNext == Fetch \/ ChangeDns

(* Every step of a fetch has its timeout, so it is taken in the end.        *)
FetchFairness == WF_fetchvars(Fetch)
FetchSpec == FetchInit /\ [][FetchNext]_fetchvars /\ FetchFairness

-----------------------------------------------------------------------------
(* The type invariant; a returned body is within max_bytes, compressed or   *)
(* not (_read_limited).                                                     *)
FetchTypeOK ==
  /\ private \in BOOLEAN
  /\ dns \subseteq Address
  /\ stage \in {"validate", "connect", "connected", "done"}
  /\ url \in FetchUrl
  /\ hops \in 0..MaxRedirects
  /\ target \in Address \union {None}
  /\ answers \subseteq Address
  /\ wire \in Address \union {None}
  /\ outcome \in {"none", "FetchResult", "FetchError", "UnsafeURLError", "ValueError"}
  /\ body \in 0..MaxBytes

(* Whatever a name resolves to meanwhile and wherever sites redirect, a     *)
(* connection goes to an address that was checked for this very hop, never  *)
(* to a metadata service, and to private ranges only where they are allowed *)
(* (portal/README.md: every redirect is checked anew).                      *)
ConnectionsChecked ==
  wire # None =>
    /\ url.port
    /\ wire \in answers
    /\ \A a \in answers : ~a.metadata /\ (a.class \in {"private", "loopback", "shared"} => private)

(* A fetch ends, even where every site redirects.                           *)
FetchEnds == <>(stage = "done")
=============================================================================
