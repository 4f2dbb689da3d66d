---------------------------- MODULE MCTradeAlerts ----------------------------
EXTENDS TradeAlerts
==============================================================================
