---------------------------- MODULE MCDashboard ----------------------------
EXTENDS DashboardProperties
=============================================================================
