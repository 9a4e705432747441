-------------------------- MODULE MCDeviceLifecycle --------------------------
EXTENDS DeviceLifecycle
=============================================================================
