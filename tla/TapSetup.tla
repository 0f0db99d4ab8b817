------------------------------- MODULE TapSetup -------------------------------
(***************************************************************************)
(* How a client gets its tap device and its socket: a chain of system      *)
(* calls, any of which may be refused, with what each failure gives back.  *)
(* A call is named by what it is asked for.                                *)
(***************************************************************************)
EXTENDS Integers, Sequences

\* What is open, what the kernel knows of the device, and what main goes by.
AllClosed ==
  [fd |-> FALSE, gen_fd |-> FALSE, udp_sock |-> FALSE, device |-> FALSE,
   persist |-> FALSE, mac |-> FALSE, mtu |-> FALSE, up |-> FALSE,
   failed |-> FALSE]

\* A device that is not persistent goes with its descriptor.
close_fd(s) ==
  [s EXCEPT !.fd = FALSE, !.device = s.persist, !.up = s.up /\ s.persist]
close_gen(s) == [s EXCEPT !.gen_fd = FALSE]
Fails(s) == [s EXCEPT !.failed = TRUE]

-----------------------------------------------------------------------------

\* tap_alloc; the checksum and debug settings are not checked.
AllocCalls == <<"open", "TUNSETIFF">>
\* setup_tuntap_device; TUNSETPERSIST and socket are not checked either.
DeviceCalls == <<"SIOCSIFHWADDR", "TUNSETPERSIST", "socket", "SIOCSIFMTU",
                 "SIOCGIFFLAGS", "SIOCSIFFLAGS", "SIOCGIFINDEX">>
Calls == AllocCalls \o DeviceCalls \o <<"create_udp_client">>

Unchecked == {"TUNSETPERSIST", "socket"}
OnSocket == {"SIOCSIFMTU", "SIOCGIFFLAGS", "SIOCSIFFLAGS", "SIOCGIFINDEX"}

\* A call on a socket that was not created is refused.
Refused(call, s, refused) == call \in refused \/ (call \in OnSocket /\ ~s.gen_fd)

Done(call, s) ==
  CASE call = "open" -> [s EXCEPT !.fd = TRUE]
    [] call = "TUNSETIFF" -> [s EXCEPT !.device = TRUE]
    [] call = "SIOCSIFHWADDR" -> [s EXCEPT !.mac = TRUE]
    [] call = "TUNSETPERSIST" -> [s EXCEPT !.persist = TRUE]
    [] call = "socket" -> [s EXCEPT !.gen_fd = TRUE]
    [] call = "SIOCSIFMTU" -> [s EXCEPT !.mtu = TRUE]
    [] call = "SIOCSIFFLAGS" -> [s EXCEPT !.up = TRUE]
    [] call = "SIOCGIFINDEX" -> close_gen(s)
    [] call = "create_udp_client" -> [s EXCEPT !.udp_sock = TRUE]
    [] OTHER -> s

\* What the error path of each call closes before it gives up.
GivesUp(call, s) ==
  CASE call \in {"open", "create_udp_client"} -> Fails(s)
    [] call \in {"TUNSETIFF", "SIOCSIFHWADDR"} -> Fails(close_fd(s))
    [] call \in OnSocket -> Fails(close_fd(close_gen(s)))
    [] call \in Unchecked -> s

\* A device that is up already is left so.
Step(call, s, refused) ==
  IF s.failed \/ (call = "SIOCSIFFLAGS" /\ s.up) THEN s
  ELSE IF Refused(call, s, refused) THEN GivesUp(call, s)
  ELSE Done(call, s)

\* create_tuntap and create_udp_client, as main calls them; a persistent
\* device may be there from an earlier client.
SetUp(refused, before) ==
  LET made[n \in 0 .. Len(Calls)] ==
        IF n = 0 THEN before ELSE Step(Calls[n], made[n - 1], refused)
  IN made[Len(Calls)]

\* What is left when the process has ended.
Ended(s) == [close_fd(s) EXCEPT !.gen_fd = FALSE, !.udp_sock = FALSE]

-----------------------------------------------------------------------------

Refusals == SUBSET {Calls[n] : n \in DOMAIN Calls}
Befores == {AllClosed, Ended(SetUp({}, AllClosed))}

\* A client starts only with a device that is up, has its address and its
\* MTU, and with no descriptor but those of the loop (main.c:137-148); no
\* error path leaves the descriptors of setup_tuntap_device open.
ASSUME StartsComplete ==
  \A refused \in Refusals, before \in Befores :
    LET s == SetUp(refused, before)
    IN /\ ~s.failed => /\ s.fd /\ s.udp_sock /\ ~s.gen_fd
                       /\ s.device /\ s.mac /\ s.mtu /\ s.up
       /\ s.failed /\ "create_udp_client" \notin refused => ~s.fd /\ ~s.gen_fd

\* The device outlives the client, one that starts and one that fails, from
\* the call that makes it persistent on (tuntap.c:105): no path takes that
\* back, so that a failed start leaves a device behind.
ASSUME DeviceStays ==
  \A refused \in Refusals :
    LET s == SetUp(refused, AllClosed)
    IN Ended(s).device <=>
         /\ refused \cap {"open", "TUNSETIFF", "SIOCSIFHWADDR"} = {}
         /\ "TUNSETPERSIST" \notin refused

=============================================================================
