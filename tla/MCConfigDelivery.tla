-------------------------- MODULE MCConfigDelivery --------------------------
EXTENDS ConfigDelivery

CONSTANTS c1, c2
=============================================================================
