-------------------------- MODULE MCShipmentRooms --------------------------
EXTENDS ShipmentRooms
=============================================================================
