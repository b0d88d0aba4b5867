---------------------------- MODULE ClientAddress ----------------------------
(***************************************************************************)
(* The address of a client: RequestUtil of libs/common, and the IpGuard of *)
(* libs/auth with the ranges it lets through or not.                       *)
(*                                                                         *)
(* The text of an address is the sequence of what stands between its       *)
(* colons: an IPv4 address, or a group of an IPv6 address, which may be    *)
(* empty and may or may not consist of digits only, or a port.  A header or *)
(* a socket that is absent counts like one with an empty text.              *)
(***************************************************************************)
EXTENDS Naturals, Sequences, FiniteSets

CONSTANT V4   \* IPv4 addresses

Digits == "digits"
Absent == <<>>

ASSUME AddressAssumption == Digits \notin V4

Mapped == <<"", "", "ffff">>

\* CloudFront's header, else the first of X-Forwarded-For, else the socket's.
RemoteIp(request) ==
  IF request.viewer # Absent THEN request.viewer
  ELSE IF request.forwarded # <<>> THEN Head(request.forwarded) ELSE request.socket

\* Mutant: a port is left on.
StripNothing(text) == text

\* .replace(/:\d+$/, '')
StripPort(text) ==
  IF Len(text) > 1 /\ text[Len(text)] = Digits
  THEN SubSeq(text, 1, Len(text) - 1) ELSE text

\* .replace(/^::ffff:/, '')
StripMapped(text) ==
  IF Len(text) > 3 /\ SubSeq(text, 1, 3) = Mapped
  THEN SubSeq(text, 4, Len(text)) ELSE text

GetClientIp(request) == StripMapped(StripPort(RemoteIp(request)))

\* Mapped addresses stay as they are.
ExtractIp(request) == StripPort(RemoteIp(request))

\* A range is a set of IPv4 addresses, or does not parse and then contains
\* nothing.  The library ip compares what the mask leaves of an address, as a
\* number: of one with colons that is not the number of the range, whatever IPv4
\* address stands at its end, unless the mask leaves nothing of any address.
\* (Other ranges from 0.0.0.0 on, and ranges of IPv6, are left out.)
CidrContains(cidr, text) ==
  /\ cidr.parses
  /\ IF Len(text) = 1 THEN text[1] \in cidr.addresses ELSE cidr.addresses = V4

InOneOf(list, text) == \E cidr \in list : CidrContains(cidr, text)

\* Without headers and socket extractIp fails on undefined.
IpGuard(options, request) ==
  LET address == ExtractIp(request) IN
  IF RemoteIp(request) = Absent THEN "TypeError"
  ELSE IF InOneOf(options.blacklist, address) THEN "ForbiddenException"
  ELSE IF options.whitelist # {} /\ ~InOneOf(options.whitelist, address)
       THEN "ForbiddenException" ELSE "pass"

-----------------------------------------------------------------------------
NoRequest == [viewer |-> Absent, forwarded |-> <<>>, socket |-> Absent]

\* How the address of a client reaches the server: with a port from CloudFront,
\* bare from a proxy or the socket ...
Forms(text) ==
  {[NoRequest EXCEPT !.viewer = Append(text, Digits)],
   [NoRequest EXCEPT !.forwarded = <<text, <<"proxy">>>>],
   [NoRequest EXCEPT !.socket = text]}

\* ... and, of IPv4, mapped from a socket that takes both.
MappedForm(text) == [NoRequest EXCEPT !.socket = Mapped \o text]

\* The ranges of a list that hold an address; those that hold every address.
Holding(list, a) == {cidr \in list : cidr.parses /\ a \in cidr.addresses}
Whole(list) == {cidr \in list : cidr.parses /\ cidr.addresses = V4}

\* What the lists say of a client, from the ranges that hold it.
Verdict(options, black, white) ==
  IF black # {} \/ (options.whitelist # {} /\ white = {})
  THEN "ForbiddenException" ELSE "pass"

Judgement(options, a) ==
  Verdict(options, Holding(options.blacklist, a), Holding(options.whitelist, a))

\* An IPv4 client is logged as itself in every form.  The IpGuard judges it by the
\* ranges that hold its address, but when its address is mapped by those only that
\* hold every address.
V4ByForm(options, a) ==
  /\ \A request \in Forms(<<a>>) :
       GetClientIp(request) = <<a>> /\ IpGuard(options, request) = Judgement(options, a)
  /\ GetClientIp(MappedForm(<<a>>)) = <<a>>
  /\ IpGuard(options, MappedForm(<<a>>)) =
       Verdict(options, Whole(options.blacklist), Whole(options.whitelist))

\* An IPv6 client is logged as itself with a port, and without one if and only if
\* its last group does not consist of digits, which are taken for a port.
V6ByForm(text) ==
  \A request \in Forms(text) :
    GetClientIp(request) = text <=> request.viewer # Absent \/ text[Len(text)] # Digits
=============================================================================
