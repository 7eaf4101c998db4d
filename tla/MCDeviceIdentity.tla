--------------------------- MODULE MCDeviceIdentity ---------------------------
EXTENDS DeviceIdentityProperties, TLC

Symmetry == Permutations(Challenges)

\* A device whose serial number the organization may have.
MCDevices == {[serial |-> <<1>>, udid |-> <<2, 3>>]}

\* Complete, with an assigner; without an identifier, and with an impossible type.
MCOtherInfos ==
  {[pi |-> [identifier |-> <<1>>, assigner |-> <<1, 3>>], hm |-> [type |-> <<2, 50>>, value |-> <<5>>]],
   [pi |-> [identifier |-> <<>>, assigner |-> <<1, 3>>], hm |-> [type |-> <<1, 50>>, value |-> <<5>>]]}

MCURIs == << <<6>>, <<6, 7>> >>
==============================================================================
