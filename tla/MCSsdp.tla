-------------------------------- MODULE MCSsdp --------------------------------
(* Small instances of Ssdp for TLC.                                         *)
EXTENDS Ssdp, TLC

CONSTANT r1

Media == <<"Media">>
Server == <<"Media", "Server">>

(* A media server of version 2 with two services, and a device in it whose  *)
(* UDN is missing.                                                          *)
MediaServer ==
    <<[udn |-> "u1", type |-> DeviceType(Server, 2),
       services |-> <<ServiceType(Media, 1), ServiceType(Server, 2)>>],
      [udn |-> None, type |-> DeviceType(Media, 1), services |-> <<>>],
      [udn |-> "u2", type |-> DeviceType(Media, 1), services |-> <<ServiceType(Media, 1)>>]>>

OneDevice == {MediaServer}
OneTarget == {DeviceType(Server, 1)}

HeardTargets == {Uuid("u1"), DeviceType(Server, 1)}

Malformed == {Advert("ssdp:alive", Uuid("u1"), Usn("u1", None), None)}


===============================================================================
