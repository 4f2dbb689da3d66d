---------------------------- MODULE MCCheckoutFlow ----------------------------
EXTENDS CheckoutFlow
==============================================================================
