----------------------------- MODULE SsdpMessages -----------------------------
(***************************************************************************)
(* What the messages of SSDP say: libupnp/ssdp/ssdp_server.c (the choice   *)
(* of AdvertiseAndReply, the reading of USN and ST), ssdp_device.c (the    *)
(* packets) and the tests ssdp_ctrlpt.c puts on what it receives.          *)
(*                                                                         *)
(* A target (the value of NT or ST) is a record with a "form", and for a   *)
(* device or service type a base, a sequence of words, and a version: a    *)
(* base is a prefix of another as a string when it is one as a sequence.   *)
(* A USN is a UDN and a target.  IPv6, whose packets differ in the HOST    *)
(* header only, is left out.                                               *)
(***************************************************************************)
EXTENDS Integers, SequencesExt

CONSTANT None \* a missing header or element

All == [form |-> "all"]
RootDevice == [form |-> "rootdevice"]
Uuid(udn) == [form |-> "uuid", udn |-> udn]
DeviceType(base, version) == [form |-> "device", base |-> base, version |-> version]
ServiceType(base, version) == [form |-> "service", base |-> base, version |-> version]
TypesOf(form) == [form : {form}, base : Seq(STRING), version : Nat]

Usn(udn, nt) == [udn |-> udn, nt |-> nt]

(* ssdp_request_type1                                                       *)
ssdp_request_type1(target) == IF target = None THEN "none" ELSE target.form

-------------------------------------------------------------------------------
(* The packets (CreateServicePacket).  A byebye has the Location, too.      *)

Advert(nts, nt, usn, location) ==
    [method |-> "NOTIFY", nts |-> nts, nt |-> nt, usn |-> usn, location |-> location]
Reply(st, usn, location) ==
    [method |-> "reply", nts |-> None, nt |-> st, usn |-> usn, location |-> location]
Search(st) ==
    [method |-> "M-SEARCH", nts |-> None, nt |-> st, usn |-> None, location |-> None]

(* A description is a sequence of devices, the root device first; type or   *)
(* udn is None when the element is missing.  AdvertiseAndReply leaves out a *)
(* device without one of them, and its services with it.                    *)
Devices == [udn : STRING \cup {None}, type : TypesOf("device") \cup {None}, services : Seq(TypesOf("service"))]
Complete(d) == d.type # None /\ d.udn # None

(* DeviceAdvertisement and DeviceShutdown: three packets for the root       *)
(* device, two for another; ServiceAdvertisement and ServiceShutdown.       *)
DeviceAdvertisement(nts, d, isRoot) ==
    {Advert(nts, Uuid(d.udn), Usn(d.udn, None), "DescURL"),
     Advert(nts, d.type, Usn(d.udn, d.type), "DescURL")}
    \cup (IF isRoot THEN {Advert(nts, RootDevice, Usn(d.udn, RootDevice), "DescURL")} ELSE {})
DeviceShutdown(d, isRoot) == DeviceAdvertisement("ssdp:byebye", d, isRoot)

ServiceAdvertisement(nts, d) ==
    {Advert(nts, s, Usn(d.udn, s), "DescURL") : s \in ToSet(d.services)}
ServiceShutdown(d) == ServiceAdvertisement("ssdp:byebye", d)

DeviceReply(d, isRoot) ==
    {Reply(m.nt, m.usn, m.location) : m \in DeviceAdvertisement("ssdp:alive", d, isRoot)}
ServiceReply(d) == {Reply(s, Usn(d.udn, s), "DescURL") : s \in ToSet(d.services)}

(* SendReply answers with the type that was asked for.                      *)
SendReply(st, d, location) == Reply(st, Usn(d.udn, IF ssdp_request_type1(st) = "uuid" THEN None ELSE st), location)

-------------------------------------------------------------------------------
(* AdvertiseAndReply                                                        *)

(* strncasecmp with the length of the requested type less two: ":v" is cut  *)
(* off, or the two digits of a version above 9.  The version of the own     *)
(* type is its last digit.                                                  *)
SameType(asked, own) ==
    IF asked.version < 10 THEN IsPrefix(asked.base, own.base) ELSE asked.base = own.base
OwnVersion(own) == own.version % 10

(* The reply to a search for a type, for one device or service of the same  *)
(* form: below the own version with the URL for older control points.       *)
TypeReplyAbove(asked, own, d) ==
    IF ~SameType(asked, own) \/ asked.version >= OwnVersion(own) THEN {}
    ELSE {SendReply(asked, d, "LowerDescURL")}
TypeReply(asked, own, d) ==
    CASE ~SameType(asked, own) \/ asked.version > OwnVersion(own) -> {}
      [] SameType(asked, own) /\ asked.version = OwnVersion(own) ->
             {SendReply(asked, d, "DescURL")}
      [] OTHER -> {SendReply(asked, d, "LowerDescURL")}

DeviceReplies(st, d, isRoot) ==
    CASE st.form = "all" -> DeviceReply(d, isRoot)
      [] st.form = "rootdevice" -> IF isRoot THEN {SendReply(RootDevice, d, "DescURL")} ELSE {}
      [] st.form = "uuid" -> IF st.udn = d.udn THEN {SendReply(st, d, "DescURL")} ELSE {}
      [] st.form = "device" -> TypeReply(st, d.type, d)
      [] OTHER -> {}

ServiceReplies(st, d) ==
    CASE st.form = "all" -> ServiceReply(d)
      [] st.form = "service" -> UNION {TypeReply(st, s, d) : s \in ToSet(d.services)}
      [] OTHER -> {}

(* All that AdvertiseAndReply sends in one copy, for a description: it      *)
(* walks the devices that name both their type and their UDN.               *)
Advertised(desc) == {i \in DOMAIN desc : Complete(desc[i])}

AliveMessages(desc) ==
    UNION {DeviceAdvertisement("ssdp:alive", desc[i], i = 1)
           \cup ServiceAdvertisement("ssdp:alive", desc[i]) : i \in Advertised(desc)}
ByebyeMessages(desc) ==
    UNION {DeviceShutdown(desc[i], i = 1) \cup ServiceShutdown(desc[i]) : i \in Advertised(desc)}
ReplyMessages(desc, st) ==
    UNION {DeviceReplies(st, desc[i], i = 1) \cup ServiceReplies(st, desc[i])
           : i \in Advertised(desc)}

-------------------------------------------------------------------------------
(* What a control point makes of a message.                                 *)

(* unique_service_name, for "uuid:...::..." and for the older form          *)
(* "uuid:schemas:device:...": what it finds is added to what the NT gave.   *)
unique_service_name(usn) ==
    [UDN |-> usn.udn,
     DeviceType  |-> IF usn.nt # None /\ usn.nt.form = "device" THEN usn.nt ELSE None,
     ServiceType |-> IF usn.nt # None /\ usn.nt.form = "service" THEN usn.nt ELSE None]

Discovery(m) == IF m.usn = None THEN None ELSE unique_service_name(m.usn)

(* ssdp_handle_ctrlpt_msg: the messages that are dropped.                   *)
ValidAdvert(m) ==
    /\ m.nts \in {"ssdp:alive", "ssdp:byebye"}
    /\ m.nt # None /\ m.usn # None
    /\ m.nts = "ssdp:alive" => m.location # None
ValidReply(m) == m.location # None /\ m.usn # None /\ m.nt # None

(* strncmp over the shorter of the two: equal, or of two versions one       *)
(* begins with the digits of the other.                                     *)
BeginAlike(v, w) == v = w \/ w \div 10 = v \/ v \div 10 = w
ReplyMatches(target, st) ==
    CASE target.form = "all" -> TRUE
      [] target.form = "rootdevice" -> st.form = "rootdevice"
      [] target.form = "uuid" -> target = st
      [] OTHER -> /\ st.form = target.form /\ st.base = target.base
                  /\ BeginAlike(target.version, st.version)
===============================================================================
