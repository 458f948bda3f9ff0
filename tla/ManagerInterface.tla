-------------------------- MODULE ManagerInterface --------------------------
(***************************************************************************)
(* What the manager of openvpn promises to those who listen to it: the     *)
(* connections of QVPNServer forward exactly this to the clients.  It has  *)
(* a state, and in one slot it says a short sequence of words:             *)
(*   a state      stateChanged                                             *)
(*   "error"      sendError                                                *)
(*   "timedOut"   timedOut                                                 *)
(* Whatever openvpn, the log file and the network do, every change of the  *)
(* state is said, and nothing is said twice; an error never comes with     *)
(* Connected; timedOut is said once, last, right after the Disconnected    *)
(* that ends an attempt to connect.                                        *)
(***************************************************************************)
EXTENDS Naturals, Sequences

VARIABLES
    vpn,  \* the state of the tunnel
    said  \* what the last slot said, in order

VpnStates == {"Disconnected", "Connecting", "Connected"}

\* A change of state is said once.
Change(from, to) == IF from = to THEN <<>> ELSE <<to>>

\* What may go wrong while an attempt to connect begins (obfsproxy, IPv6).
Trouble == {<<>>, <<"error">>, <<"error">> \o <<"error">>}

Init ==
    /\ vpn = "Disconnected"
    /\ said = <<>>

\* The state stays; there may be errors.
Stay ==
    /\ vpn' = vpn
    /\ said' \in {<<>>, <<"error">>}

Move ==
    /\ vpn' \in VpnStates
    /\ vpn' # vpn
    /\ said' = <<vpn'>>

\* The answer to cmdStart: what there is ends, and an attempt to connect begins.
Start ==
    /\ vpn' = "Connecting"
    /\ \E trouble \in Trouble :
         said' = Change(vpn, "Disconnected") \o <<"Connecting">> \o trouble

\* The answer to cmdStop.
Stop ==
    /\ vpn' = "Disconnected"
    /\ said' = Change(vpn, "Disconnected")

\* The manager begins another attempt of its own.
Retry ==
    /\ vpn' = "Connecting"
    /\ \E trouble \in Trouble : said' = Change(vpn, "Connecting") \o trouble

\* An error ends what there is, whichever is said first.
Fail ==
    /\ vpn' = "Disconnected"
    /\ said' \in {<<"error">> \o Change(vpn, "Disconnected"),
                  Change(vpn, "Disconnected") \o <<"error">>}

TimeOut ==
    /\ vpn = "Connecting"
    /\ vpn' = "Disconnected"
    /\ said' = <<"Disconnected", "timedOut">>

\* The tunnel crashed, and the attempt to connect again is late as it begins.
CrashTimesOut ==
    /\ vpn = "Connected"
    /\ vpn' = "Disconnected"
    /\ \E trouble \in Trouble :
         said' = <<"Connecting">> \o trouble \o <<"Disconnected", "timedOut">>

\* The service dies: the one change of state that nobody is told of.
Die ==
    /\ vpn' = "Disconnected"
    /\ said' = <<>>

\* The words s take one who knows the state to be from to the state to: the last
\* state in s is to, or there is none and the state stays.
Tells(s, from, to) ==
    \/ from = to /\ \A i \in DOMAIN s : s[i] \notin VpnStates
    \/ \E i \in DOMAIN s :
         /\ s[i] = to
         /\ to \in VpnStates
         /\ \A j \in DOMAIN s : j > i => s[j] \notin VpnStates

Next == Stay \/ Move \/ Start \/ Stop \/ Retry \/ Fail \/ TimeOut \/ CrashTimesOut \/ Die

Spec == Init /\ [][Next]_<<vpn, said>>
=============================================================================
