---- MODULE MCNotificationDeliveries ----
\* Small instances of NotificationDeliveries for TLC.
EXTENDS NotificationDeliveries, TLC
====
