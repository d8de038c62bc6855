----------------------------- MODULE Addresses -----------------------------
(***************************************************************************)
(* Where the media server listens and which host its URL names: the pure   *)
(* decisions of src/internal/cli/run.go (validateCastListen,               *)
(* resolveListen), src/internal/stream/manager.go (bindAddr),              *)
(* src/internal/web/web.go (requestHost) and src/internal/server/server.go *)
(* (Start).                                                                *)
(*                                                                         *)
(* A host is the spelling the code compares, or what the spellings it does *)
(* not compare have in common.                                             *)
(***************************************************************************)

Wildcard == {"empty", "0.0.0.0", "::"}
Loopback == {"localhost", "loopback IP"}

\* "unspecified": another spelling of 0.0.0.0 or ::; "loopback name": another
\* name of the loopback interface, like LOCALHOST; "lan": this machine's
\* address on the network of the player; "other network": its address on a
\* network the player is not on, like a VPN; "foreign": no address of its own.
Host == Wildcard \cup Loopback
          \cup {"unspecified", "loopback name", "lan", "other network", "foreign"}

\* The value of an address option: not given, not host:port, or a host.
Listen == Host \cup {"unset", "malformed"}

NoHost == "none"
LanIP == {"lan", NoHost}  \* what LocalIPFor finds, NoHost for an error

\* net.Listen: the class of the address it binds, as listener.Addr prints it.
Binds(listen) == listen \notin {"malformed", "foreign"}
Bound(host) ==
  CASE host \in Wildcard \cup {"unspecified"} -> "unspecified"
    [] host \in Loopback \cup {"loopback name"} -> "loopback IP"
    [] OTHER -> host

\* Variant with a defect: there is no address to fall back to.
StreamHostAsGiven(at) ==
  IF at.advertise # NoHost THEN at.advertise ELSE Bound(at.listen)

\* server.Start: without an address, a random port of 127.0.0.1; the URL
\* names the host to advertise, or else the one that was bound.
StreamHost(at) ==
  IF at.advertise # NoHost THEN at.advertise
  ELSE Bound(IF at.listen = "unset" THEN "loopback IP" ELSE at.listen)

At(listen, advertise) == [listen |-> listen, advertise |-> advertise]

\* validateCastListen
ValidateCastListen(listen) == listen \notin Loopback \cup {"malformed"}

\* Variant with a defect: an empty host, as in ":8080", is left as it is.
ResolveNamedWildcards(listen, lan) ==
  CASE listen = "unset" -> At("0.0.0.0", lan)
    [] listen \in Wildcard \ {"empty"} -> At(listen, lan)
    [] OTHER -> At(listen, NoHost)

\* resolveListen with a cast device; without one the option is taken as it is.
ResolveCastListen(listen, lan) ==
  CASE listen = "unset" -> At("0.0.0.0", lan)
    [] listen \in Wildcard -> At(listen, lan)
    [] OTHER -> At(listen, NoHost)

\* requestHost: the host a browser named, unless it is none or localhost.
RequestHost(host) == IF host \in {"empty", "localhost"} THEN NoHost ELSE host

\* bindAddr, by backend.
BindAddr(backend, lan, requested) ==
  CASE backend = "cast" -> At("0.0.0.0", lan)
    [] backend = "vlc" -> At("unset", NoHost)
    [] OTHER -> At("0.0.0.0", requested)

----------------------------------------------------------------------------
(* What comes of the decisions *)

\* Hosts a device cannot reach that validateCastListen does not refuse and
\* resolveListen does not replace: they are bound and advertised as given.
Unchecked == {"unspecified", "loopback name", "other network"}
=============================================================================
